---------------------------- MODULE Spec2Model ----------------------------
(***************************************************************************)
(* A model of the type algebra of LSTS (src/src/typ.rs): the Type enum,    *)
(* its derived ordering, normalization and ratio simplification, and the   *)
(* two unifiers (most_general_unifier and implication_unifier).            *)
(*                                                                         *)
(* A Type is a record with the same five fields for every variant, so      *)
(* that any two types can be compared:                                     *)
(*    k   the variant ("Any", "Named", "And", "Arrow", "Tuple",            *)
(*        "Product", "Ratio", "Constant")                                  *)
(*    n   the name of a Named, a sequence of character codes              *)
(*    ts  the members: parameters of a Named, members of an And, Tuple or  *)
(*        Product, <<domain, range>> of an Arrow, <<num, den>> of a Ratio  *)
(*    v   the is-variable flag of a Constant                               *)
(*    id  the TermId of a Constant                                         *)
(***************************************************************************)
EXTENDS Integers, Sequences, FiniteSets

\* a, b: the operands; op: the operation applied; out: its result;
\* subs: the substitution list of the implication unifier; ks: the list
\* given to Kind::and; funcs: the function definitions lowered so far;
\* compiled: the mangled names whose bodies were lowered, in order.
VARIABLES a, b, op, out, subs, ks, funcs, compiled, tlc

vars == <<a, b, op, out, subs, ks, funcs, compiled, tlc>>

\* tlc holds the term rows and the scopes where an operation changes them;
\* elsewhere the rows and scopes are fixed and tlc is empty.
NoArena == [rows |-> <<>>, scopes |-> <<>>]

---------------------------------------------------------------------------
(* The Type enum and its constructors.                                     *)

Any == [k |-> "Any", n |-> <<>>, ts |-> <<>>, v |-> FALSE, id |-> 0]

Named(nm, ps) == [k |-> "Named", n |-> nm, ts |-> ps, v |-> FALSE, id |-> 0]

And(ms) == [k |-> "And", n |-> <<>>, ts |-> ms, v |-> FALSE, id |-> 0]

Arrow(p, r) == [k |-> "Arrow", n |-> <<>>, ts |-> <<p, r>>, v |-> FALSE, id |-> 0]

Tuple(ms) == [k |-> "Tuple", n |-> <<>>, ts |-> ms, v |-> FALSE, id |-> 0]

Product(ms) == [k |-> "Product", n |-> <<>>, ts |-> ms, v |-> FALSE, id |-> 0]

Ratio(p, r) == [k |-> "Ratio", n |-> <<>>, ts |-> <<p, r>>, v |-> FALSE, id |-> 0]

Constant(f, c) == [k |-> "Constant", n |-> <<>>, ts |-> <<>>, v |-> f, id |-> c]

\* The bottom type is the empty conjunction; the unit type the empty tuple.
Bottom == And(<<>>)

Unit == Tuple(<<>>)

is_bottom(t) == t.k = "And" /\ Len(t.ts) = 0

\* char::is_uppercase on the ASCII letters the model's names are made of.
IsUpperChar(c) == c >= 65 /\ c <= 90

\* tn.chars().all(char::is_uppercase): every character, so "Aa" is not a
\* variable name and "X" is.
AllUpper(nm) == \A i \in 1..Len(nm) : IsUpperChar(nm[i])

is_var(t) == t.k = "Named" /\ Len(t.ts) = 0 /\ AllUpper(t.n)

---------------------------------------------------------------------------
(* #[derive(Ord)] on Type: the variant's position first, then the fields   *)
(* in order, sequences lexicographically (a proper prefix is smaller).     *)

Rank(t) ==
  CASE t.k = "Any" -> 0
    [] t.k = "Named" -> 1
    [] t.k = "And" -> 2
    [] t.k = "Arrow" -> 3
    [] t.k = "Tuple" -> 4
    [] t.k = "Product" -> 5
    [] t.k = "Ratio" -> 6
    [] t.k = "Constant" -> 7

CmpInt(x, y) == IF x < y THEN -1 ELSE IF x > y THEN 1 ELSE 0

CmpBool(x, y) == CmpInt(IF x THEN 1 ELSE 0, IF y THEN 1 ELSE 0)

RECURSIVE CmpName(_, _)
CmpName(x, y) ==
  IF x = <<>> THEN (IF y = <<>> THEN 0 ELSE -1)
  ELSE IF y = <<>> THEN 1
  ELSE IF Head(x) # Head(y) THEN CmpInt(Head(x), Head(y))
  ELSE CmpName(Tail(x), Tail(y))

RECURSIVE Cmp(_, _)
RECURSIVE CmpSeq(_, _)
Cmp(s, t) ==
  IF Rank(s) # Rank(t) THEN CmpInt(Rank(s), Rank(t))
  ELSE IF CmpName(s.n, t.n) # 0 THEN CmpName(s.n, t.n)
  ELSE IF CmpSeq(s.ts, t.ts) # 0 THEN CmpSeq(s.ts, t.ts)
  ELSE IF s.v # t.v THEN CmpBool(s.v, t.v)
  ELSE CmpInt(s.id, t.id)

CmpSeq(x, y) ==
  IF x = <<>> THEN (IF y = <<>> THEN 0 ELSE -1)
  ELSE IF y = <<>> THEN 1
  ELSE IF Cmp(Head(x), Head(y)) # 0 THEN Cmp(Head(x), Head(y))
  ELSE CmpSeq(Tail(x), Tail(y))

\* Vec::sort: the order is total, so the sorted sequence is unique.
RECURSIVE Insert(_, _)
Insert(x, s) ==
  IF s = <<>> THEN <<x>>
  ELSE IF Cmp(x, Head(s)) <= 0 THEN <<x>> \o s
  ELSE <<Head(s)>> \o Insert(x, Tail(s))

RECURSIVE Sort(_)
Sort(s) == IF s = <<>> THEN <<>> ELSE Insert(Head(s), Sort(Tail(s)))

\* Vec::dedup: drops an element equal to the one before it.
RECURSIVE Dedup(_)
Dedup(s) ==
  IF Len(s) <= 1 THEN s
  ELSE IF s[1] = s[2] THEN Dedup(Tail(s))
  ELSE <<s[1]>> \o Dedup(Tail(s))

---------------------------------------------------------------------------
(* project_ratio, simplify_ratio, normalize.                               *)

RECURSIVE project_ratio(_)
RECURSIVE ProjectAll(_)
project_ratio(t) ==
  IF t.k = "Ratio" THEN
    LET p == project_ratio(t.ts[1])
        r == project_ratio(t.ts[2])
    IN [num |-> p.num \o r.den, den |-> p.den \o r.num]
  ELSE IF t.k = "Product" THEN ProjectAll(t.ts)
  ELSE [num |-> <<t>>, den |-> <<>>]

ProjectAll(ms) ==
  IF ms = <<>> THEN [num |-> <<>>, den |-> <<>>]
  ELSE LET h == project_ratio(Head(ms))
           r == ProjectAll(Tail(ms))
       IN [num |-> h.num \o r.num, den |-> h.den \o r.den]

\* num.iter().position(|n| n == &d): the first index holding d, 0 if none.
RECURSIVE Position(_, _)
Position(s, d) ==
  IF s = <<>> THEN 0
  ELSE IF Head(s) = d THEN 1
  ELSE LET p == Position(Tail(s), d) IN IF p = 0 THEN 0 ELSE p + 1

RemoveAt(s, i) == SubSeq(s, 1, i - 1) \o SubSeq(s, i + 1, Len(s))

\* Cancel with the removal from the numerator lost: a matched denominator
\* atom is dropped and the numerator keeps its atom.
RECURSIVE CancelKeepsNum(_, _, _)
CancelKeepsNum(num, den, rden) ==
  IF den = <<>> THEN [num |-> num, den |-> rden]
  ELSE LET ni == Position(num, Head(den))
       IN IF ni # 0 THEN CancelKeepsNum(num, Tail(den), rden)
          ELSE CancelKeepsNum(num, Tail(den), Append(rden, Head(den)))

\* Cancel with every occurrence of a denominator atom taken from the
\* numerator, not the first one only.
RECURSIVE CancelEveryMatch(_, _, _)
CancelEveryMatch(num, den, rden) ==
  IF den = <<>> THEN [num |-> num, den |-> rden]
  ELSE LET Other(n) == n # Head(den)
       IN IF Position(num, Head(den)) # 0
          THEN CancelEveryMatch(SelectSeq(num, Other), Tail(den), rden)
          ELSE CancelEveryMatch(num, Tail(den), Append(rden, Head(den)))

\* The cancellation loop of simplify_ratio over the denominator atoms.
RECURSIVE Cancel(_, _, _)
Cancel(num, den, rden) ==
  IF den = <<>> THEN [num |-> num, den |-> rden]
  ELSE LET ni == Position(num, Head(den))
       IN IF ni # 0 THEN Cancel(RemoveAt(num, ni), Tail(den), rden)
          ELSE Cancel(num, Tail(den), Append(rden, Head(den)))

simplify_ratio(t) ==
  LET pr == project_ratio(t)
      c == Cancel(pr.num, pr.den, <<>>)
      nn == IF Len(c.num) = 0 THEN Unit
            ELSE IF Len(c.num) = 1 THEN c.num[1]
            ELSE Product(c.num)
  IN IF Len(c.den) = 0 THEN nn
     ELSE IF Len(c.den) = 1 THEN Ratio(nn, c.den[1])
     ELSE Ratio(nn, Product(c.den))

\* Flat with the append arm lost: an And result is pushed as one member.
FlatPushOnly(t) == <<t>>

\* One level of flattening: the members of an And, anything else itself.
Flat(t) == IF t.k = "And" THEN t.ts ELSE <<t>>

RECURSIVE FlatAll(_)
FlatAll(ms) == IF ms = <<>> THEN <<>> ELSE Flat(Head(ms)) \o FlatAll(Tail(ms))

\* Collapse with the dedup lost.
CollapseNoDedup(ms) ==
  LET s == Sort(ms) IN IF Len(s) = 1 THEN s[1] ELSE And(s)

\* mts.sort(); mts.dedup(); if mts.len()==1 { mts[0] } else { And(mts) }
Collapse(ms) ==
  LET s == Dedup(Sort(ms)) IN IF Len(s) = 1 THEN s[1] ELSE And(s)

\* The loop of domain and range over the parts of the conjuncts: an And is
\* appended member by member, anything else is pushed.
RECURSIVE AppendParts(_)
AppendParts(parts) ==
  IF parts = <<>> THEN <<>>
  ELSE (IF Head(parts).k = "And" THEN Head(parts).ts ELSE <<Head(parts)>>)
         \o AppendParts(Tail(parts))

\* if cts.len()==1 { cts[0].clone() } else { Type::And(cts) }
OneOrAnd(cts) == IF Len(cts) = 1 THEN cts[1] ELSE And(cts)

\* Type::domain with the domains of the conjuncts sorted and deduplicated.
RECURSIVE DomainCollapsed(_)
DomainCollapsed(t) ==
  IF t.k = "Arrow" THEN t.ts[1]
  ELSE IF t.k = "And"
       THEN Collapse(AppendParts([i \in 1..Len(t.ts) |-> DomainCollapsed(t.ts[i])]))
  ELSE Bottom

\* Type::domain
RECURSIVE domain(_)
domain(t) ==
  IF t.k = "Arrow" THEN t.ts[1]
  ELSE IF t.k = "And"
       THEN OneOrAnd(AppendParts([i \in 1..Len(t.ts) |-> domain(t.ts[i])]))
  ELSE Bottom

\* Type::range
RECURSIVE range(_)
range(t) ==
  IF t.k = "Arrow" THEN t.ts[2]
  ELSE IF t.k = "And"
       THEN OneOrAnd(AppendParts([i \in 1..Len(t.ts) |-> range(t.ts[i])]))
  ELSE Bottom

\* Type::mask with the parameters of a concrete Named left as they are.
RECURSIVE MaskKeepsParams(_)
MaskKeepsParams(t) ==
  CASE t.k = "Named" -> IF AllUpper(t.n) THEN Any ELSE t
    [] t.k \in {"Arrow", "Ratio", "And", "Tuple", "Product"} ->
         [t EXCEPT !.ts = [i \in 1..Len(t.ts) |-> MaskKeepsParams(t.ts[i])]]
    [] OTHER -> t

\* Type::mask
RECURSIVE mask(_)
mask(t) ==
  CASE t.k = "Any" -> Any
    [] t.k = "Named" /\ AllUpper(t.n) -> Any
    [] t.k = "Named" /\ ~AllUpper(t.n) -> Named(t.n, [i \in 1..Len(t.ts) |-> Any])
    [] t.k = "Arrow" -> Arrow(mask(t.ts[1]), mask(t.ts[2]))
    [] t.k = "Ratio" -> Ratio(mask(t.ts[1]), mask(t.ts[2]))
    [] t.k = "And" -> And([i \in 1..Len(t.ts) |-> mask(t.ts[i])])
    [] t.k = "Tuple" -> Tuple([i \in 1..Len(t.ts) |-> mask(t.ts[i])])
    [] t.k = "Product" -> Product([i \in 1..Len(t.ts) |-> mask(t.ts[i])])
    [] t.k = "Constant" -> Constant(t.v, t.id)

RECURSIVE normalize(_)
normalize(t) ==
  CASE t.k = "And" ->
         Collapse(FlatAll([i \in 1..Len(t.ts) |-> normalize(t.ts[i])]))
    [] t.k = "Product" ->
         simplify_ratio(Product(Sort([i \in 1..Len(t.ts) |-> normalize(t.ts[i])])))
    [] t.k = "Tuple" -> Tuple([i \in 1..Len(t.ts) |-> normalize(t.ts[i])])
    [] t.k = "Named" -> Named(t.n, [i \in 1..Len(t.ts) |-> normalize(t.ts[i])])
    [] t.k = "Arrow" -> Arrow(normalize(t.ts[1]), normalize(t.ts[2]))
    [] t.k = "Ratio" -> simplify_ratio(t)
    [] OTHER -> t

---------------------------------------------------------------------------
(* most_general_unifier: the arms of the match, in source order.           *)

RECURSIVE most_general_unifier(_, _)
RECURSIVE MguOverRights(_, _)
RECURSIVE MguOverLefts(_, _)

\* for rt in rts.iter() { match lt.most_general_unifier(rt) {
\*    And(tts) => mts.append(tts), tt => mts.push(tt) } }
MguOverRights(lt, rts) ==
  IF rts = <<>> THEN <<>>
  ELSE Flat(most_general_unifier(lt, Head(rts))) \o MguOverRights(lt, Tail(rts))

\* for ltt in lts.iter() { match ltt.most_general_unifier(rt) { ... } }
MguOverLefts(lts, rt) ==
  IF lts = <<>> THEN <<>>
  ELSE Flat(most_general_unifier(Head(lts), rt)) \o MguOverLefts(Tail(lts), rt)

\* The element-wise loop of the Named, Product and Tuple arms: the first
\* bottom element is returned as the whole result.
MguZip(la, ra) == [i \in 1..Len(la) |-> most_general_unifier(la[i], ra[i])]

HasBottom(ms) == \E i \in 1..Len(ms) : is_bottom(ms[i])

MguRatioRatio(l, r) ==
  LET pt == most_general_unifier(l.ts[1], r.ts[1])
      bt == most_general_unifier(l.ts[2], r.ts[2])
  IN IF is_bottom(pt) THEN pt
     ELSE IF is_bottom(bt) THEN bt
     ELSE Ratio(pt, bt)

\* (lt, Ratio(pr, br)): only a Nil divisor on the right unifies.
MguRatioRight(lt, r) ==
  IF r.ts[2] = Unit THEN most_general_unifier(lt, r.ts[1]) ELSE Bottom

\* MguRatioLeft with the divisor test lost.
MguRatioLeftAnyDivisor(l, rt) == most_general_unifier(l.ts[1], rt)

\* (Ratio(pl, bl), rt): only a Nil divisor on the left unifies.
MguRatioLeft(l, rt) ==
  IF l.ts[2] = Unit THEN most_general_unifier(l.ts[1], rt) ELSE Bottom

\* SameNamed with the comparison of the names lost.
SameNamedArityOnly(l, r) ==
  l.k = "Named" /\ r.k = "Named" /\ Len(l.ts) = Len(r.ts)

\* The guard of the Named arm of both unifiers: lv==rv && lps.len()==rps.len()
SameNamed(l, r) ==
  l.k = "Named" /\ r.k = "Named" /\ l.n = r.n /\ Len(l.ts) = Len(r.ts)

MguNamed(l, r) ==
  LET tps == MguZip(l.ts, r.ts)
  IN IF HasBottom(tps) THEN Bottom ELSE Named(l.n, tps)

\* Arrow against Arrow with the domains unified as the ranges are.
MguArrowUnifiesDomains(l, r) ==
  LET pt == most_general_unifier(l.ts[1], r.ts[1])
      bt == most_general_unifier(l.ts[2], r.ts[2])
  IN IF is_bottom(pt) THEN pt
     ELSE IF is_bottom(bt) THEN bt
     ELSE Arrow(pt, bt)

\* Arrow against Arrow: the domains are compared with ==, not unified.
MguArrow(l, r) ==
  LET pt == IF l.ts[1] = r.ts[1] THEN l.ts[1] ELSE Bottom
      bt == most_general_unifier(l.ts[2], r.ts[2])
  IN IF is_bottom(pt) THEN pt
     ELSE IF is_bottom(bt) THEN bt
     ELSE Arrow(pt, bt)

MguProduct(l, r) ==
  LET ms == MguZip(l.ts, r.ts)
  IN IF HasBottom(ms) THEN Bottom ELSE Product(ms)

MguTuple(l, r) ==
  LET ms == MguZip(l.ts, r.ts)
  IN IF HasBottom(ms) THEN Bottom ELSE Tuple(ms)

MguConstant(l, r) ==
  IF l.id = r.id THEN Constant(l.v \/ r.v, l.id) ELSE Bottom

\* (Named(lv,_), Named(rv,_)) if lv is all uppercase && lv == rv => self
MguSameVar(l, r) == l

most_general_unifier(l, r) ==
  IF is_bottom(l) THEN Bottom
  ELSE IF is_bottom(r) THEN Bottom
  ELSE IF l.k = "Any" /\ r.k = "Any" THEN l
  ELSE IF l.k = "Named" /\ r.k = "Named" /\ AllUpper(l.n) /\ l.n = r.n
       THEN MguSameVar(l, r)
  ELSE IF l.k = "And" /\ r.k = "And" THEN Collapse(MguOverRights(l, r.ts))
  ELSE IF l.k = "And" THEN Collapse(MguOverLefts(l.ts, r))
  ELSE IF r.k = "And" THEN Collapse(MguOverRights(l, r.ts))
  ELSE IF l.k = "Ratio" /\ r.k = "Ratio" THEN MguRatioRatio(l, r)
  ELSE IF r.k = "Ratio" THEN MguRatioRight(l, r)
  ELSE IF l.k = "Ratio" THEN MguRatioLeft(l, r)
  ELSE IF SameNamed(l, r) THEN MguNamed(l, r)
  ELSE IF l.k = "Arrow" /\ r.k = "Arrow" THEN MguArrow(l, r)
  ELSE IF l.k = "Product" /\ r.k = "Product" /\ Len(l.ts) = Len(r.ts)
       THEN MguProduct(l, r)
  ELSE IF l.k = "Tuple" /\ r.k = "Tuple" /\ Len(l.ts) = Len(r.ts)
       THEN MguTuple(l, r)
  ELSE IF l.k = "Constant" /\ r.k = "Constant" THEN MguConstant(l, r)
  ELSE Bottom

---------------------------------------------------------------------------
(* _implication_unifier threads the substitution list subs (a sequence of  *)
(* <<variable, type>> pairs) through every recursive call.  Each operator  *)
(* here returns [t |-> the type, s |-> the list after the call].           *)

RECURSIVE _implication_unifier(_, _, _)
RECURSIVE IuOverRights(_, _, _, _)
RECURSIVE IuOverLefts(_, _, _, _)
RECURSIVE IuZip(_, _, _, _)
RECURSIVE IuNamedZip(_, _, _, _)

\* The loops of the (And, And) and (lt, And) arms: a bottom branch returns
\* bottom for the whole loop at once.  mts collects the flattened results.
IuOverRights(lt, rts, mts, sb) ==
  IF rts = <<>> THEN [t |-> Collapse(mts), s |-> sb]
  ELSE LET r == _implication_unifier(lt, Head(rts), sb)
       IN IF is_bottom(r.t) THEN [t |-> Bottom, s |-> r.s]
          ELSE IuOverRights(lt, Tail(rts), mts \o Flat(r.t), r.s)

\* IuOverLefts with a bottom branch ending the loop with bottom, as in the
\* loops over the right members.
RECURSIVE IuOverLeftsAllMust(_, _, _, _)
IuOverLeftsAllMust(lts, rt, mts, sb) ==
  IF lts = <<>> THEN [t |-> Collapse(mts), s |-> sb]
  ELSE LET r == _implication_unifier(Head(lts), rt, sb)
       IN IF is_bottom(r.t) THEN [t |-> Bottom, s |-> r.s]
          ELSE IuOverLeftsAllMust(Tail(lts), rt, mts \o Flat(r.t), r.s)

\* The loop of the (And, rt) arm: a bottom branch appends nothing and the
\* loop goes on, keeping what the branch pushed on subs.
IuOverLefts(lts, rt, mts, sb) ==
  IF lts = <<>> THEN [t |-> Collapse(mts), s |-> sb]
  ELSE LET r == _implication_unifier(Head(lts), rt, sb)
       IN IuOverLefts(Tail(lts), rt, mts \o Flat(r.t), r.s)

\* The loop of the Product and Tuple arms; t is the sequence of results,
\* or bottom once an element is bottom.
IuZip(la, ra, ms, sb) ==
  IF la = <<>> THEN [t |-> ms, s |-> sb, bot |-> FALSE]
  ELSE LET r == _implication_unifier(Head(la), Head(ra), sb)
       IN IF is_bottom(r.t) THEN [t |-> ms, s |-> r.s, bot |-> TRUE]
          ELSE IuZip(Tail(la), Tail(ra), Append(ms, r.t), r.s)

\* The loop of the Named arm calls lp._implication_unifier(rp, subs) twice
\* for every parameter: once to test for bottom, once for the value pushed.
IuNamedZip(la, ra, ms, sb) ==
  IF la = <<>> THEN [t |-> ms, s |-> sb, bot |-> FALSE]
  ELSE LET r1 == _implication_unifier(Head(la), Head(ra), sb)
           r2 == _implication_unifier(Head(la), Head(ra), r1.s)
       IN IF is_bottom(r1.t) THEN [t |-> ms, s |-> r1.s, bot |-> TRUE]
          ELSE IuNamedZip(Tail(la), Tail(ra), Append(ms, r2.t), r2.s)

IuRatioRatio(l, r, sb) ==
  LET pt == _implication_unifier(l.ts[1], r.ts[1], sb)
      bt == _implication_unifier(l.ts[2], r.ts[2], pt.s)
  IN IF is_bottom(pt.t) THEN pt
     ELSE IF is_bottom(bt.t) THEN bt
     ELSE [t |-> Ratio(pt.t, bt.t), s |-> bt.s]

\* IuArrow with the domains unified in order (covariant).
IuArrowCovariant(l, r, sb) ==
  LET pt == _implication_unifier(l.ts[1], r.ts[1], sb)
      bt == _implication_unifier(l.ts[2], r.ts[2], pt.s)
  IN IF is_bottom(pt.t) THEN pt
     ELSE IF is_bottom(bt.t) THEN bt
     ELSE [t |-> Arrow(pt.t, bt.t), s |-> bt.s]

\* Arrow against Arrow: the domains are unified with the operands swapped
\* (contravariant), the ranges in order.
IuArrow(l, r, sb) ==
  LET pt == _implication_unifier(r.ts[1], l.ts[1], sb)
      bt == _implication_unifier(l.ts[2], r.ts[2], pt.s)
  IN IF is_bottom(pt.t) THEN pt
     ELSE IF is_bottom(bt.t) THEN bt
     ELSE [t |-> Arrow(pt.t, bt.t), s |-> bt.s]

\* (Named(lv,_), rt) if lv is all uppercase: push (self, rt), return self.
IuVarLeft(l, r, sb) == [t |-> l, s |-> Append(sb, <<l, r>>)]

\* IuVarRight returning the left type instead of the variable.
IuVarRightKeepsLeft(l, r, sb) == [t |-> l, s |-> sb]

\* (lt, Named(rv,_)) if rv is all uppercase: push (other, lt), return other.
IuVarRight(l, r, sb) == [t |-> r, s |-> Append(sb, <<r, l>>)]

_implication_unifier(l, r, sb) ==
  IF is_bottom(l) THEN [t |-> Bottom, s |-> sb]
  ELSE IF is_bottom(r) THEN [t |-> Bottom, s |-> sb]
  ELSE IF r.k = "Any" THEN [t |-> l, s |-> sb]
  ELSE IF l.k = "Named" /\ AllUpper(l.n) THEN IuVarLeft(l, r, sb)
  ELSE IF r.k = "Named" /\ AllUpper(r.n) THEN IuVarRight(l, r, sb)
  ELSE IF l.k = "And" /\ r.k = "And" THEN
    LET x == IuOverRights(l, r.ts, <<>>, sb) IN [t |-> x.t, s |-> x.s]
  ELSE IF l.k = "And" THEN
    LET x == IuOverLefts(l.ts, r, <<>>, sb) IN [t |-> x.t, s |-> x.s]
  ELSE IF r.k = "And" THEN
    LET x == IuOverRights(l, r.ts, <<>>, sb) IN [t |-> x.t, s |-> x.s]
  ELSE IF l.k = "Ratio" /\ r.k = "Ratio" THEN IuRatioRatio(l, r, sb)
  ELSE IF r.k = "Ratio" THEN
    (IF r.ts[2] = Unit THEN _implication_unifier(l, r.ts[1], sb) ELSE [t |-> Bottom, s |-> sb])
  ELSE IF l.k = "Ratio" THEN
    (IF l.ts[2] = Unit THEN _implication_unifier(l.ts[1], r, sb) ELSE [t |-> Bottom, s |-> sb])
  ELSE IF SameNamed(l, r) THEN
    LET x == IuNamedZip(l.ts, r.ts, <<>>, sb)
    IN [t |-> IF x.bot THEN Bottom ELSE Named(l.n, x.t), s |-> x.s]
  ELSE IF l.k = "Arrow" /\ r.k = "Arrow" THEN IuArrow(l, r, sb)
  ELSE IF l.k = "Product" /\ r.k = "Product" /\ Len(l.ts) = Len(r.ts) THEN
    LET x == IuZip(l.ts, r.ts, <<>>, sb)
    IN [t |-> IF x.bot THEN Bottom ELSE Product(x.t), s |-> x.s]
  ELSE IF l.k = "Tuple" /\ r.k = "Tuple" /\ Len(l.ts) = Len(r.ts) THEN
    LET x == IuZip(l.ts, r.ts, <<>>, sb)
    IN [t |-> IF x.bot THEN Bottom ELSE Tuple(x.t), s |-> x.s]
  ELSE IF l.k = "Constant" /\ r.k = "Constant" THEN [t |-> MguConstant(l, r), s |-> sb]
  ELSE [t |-> Bottom, s |-> sb]

---------------------------------------------------------------------------
(* substitute and implication_unifier.  The map msubs is a function from   *)
(* the bound types to their bindings.                                      *)

EmptyMap == [x \in {} |-> x]

MapInsert(m, key, val) ==
  [x \in (DOMAIN m) \cup {key} |-> IF x = key THEN val ELSE m[x]]

RECURSIVE substitute(_, _)
substitute(t, m) ==
  IF t \in DOMAIN m THEN m[t]
  ELSE CASE t.k = "Arrow" -> Arrow(substitute(t.ts[1], m), substitute(t.ts[2], m))
         [] t.k = "Ratio" -> Ratio(substitute(t.ts[1], m), substitute(t.ts[2], m))
         [] t.k = "Named" -> Named(t.n, [i \in 1..Len(t.ts) |-> substitute(t.ts[i], m)])
         [] t.k = "And" -> And([i \in 1..Len(t.ts) |-> substitute(t.ts[i], m)])
         [] t.k = "Tuple" -> Tuple([i \in 1..Len(t.ts) |-> substitute(t.ts[i], m)])
         [] t.k = "Product" -> Product([i \in 1..Len(t.ts) |-> substitute(t.ts[i], m)])
         [] OTHER -> t

\* MergeSubs with the merge lost: a later binding overwrites an earlier one.
RECURSIVE MergeSubsLastWins(_, _)
MergeSubsLastWins(sb, m) ==
  IF sb = <<>> THEN [bot |-> FALSE, m |-> m]
  ELSE MergeSubsLastWins(Tail(sb), MapInsert(m, Head(sb)[1], Head(sb)[2]))

\* The loop of implication_unifier over subs: a binding of a type already
\* bound is replaced by the most_general_unifier of the two, and a bottom
\* there ends the whole call with bottom.
RECURSIVE MergeSubs(_, _)
MergeSubs(sb, m) ==
  IF sb = <<>> THEN [bot |-> FALSE, m |-> m]
  ELSE LET lt == Head(sb)[1]
           rt == IF lt \in DOMAIN m
                 THEN most_general_unifier(m[lt], Head(sb)[2])
                 ELSE Head(sb)[2]
       IN IF lt \in DOMAIN m /\ is_bottom(rt) THEN [bot |-> TRUE, m |-> m]
          ELSE MergeSubs(Tail(sb), MapInsert(m, lt, rt))

implication_unifier(l, r) ==
  LET nt == _implication_unifier(l, r, <<>>)
      ms == MergeSubs(nt.s, EmptyMap)
  IN IF ms.bot THEN Bottom ELSE substitute(nt.t, ms.m)

\* The list subs as _implication_unifier leaves it.
collected_subs(l, r) == _implication_unifier(l, r, <<>>).s

---------------------------------------------------------------------------
(* The types the operations are applied to.                                *)

NameAa == <<65, 97>>

NameBb == <<66, 98>>

NameCc == <<67, 99>>

NameX == <<88>>

NameY == <<89>>

Aa == Named(NameAa, <<>>)

Bb == Named(NameBb, <<>>)

Cc == Named(NameCc, <<>>)

X == Named(NameX, <<>>)

Y == Named(NameY, <<>>)

C1 == Constant(FALSE, 1)

C1v == Constant(TRUE, 1)

C2 == Constant(FALSE, 2)

\* The atoms compound types are generated from; the first NumGen are used.
GenAtoms == <<Aa, X, Bb, Unit, Y, C1, Any>>

NumGen == 4

Gen == {GenAtoms[i] : i \in 1..(IF NumGen < Len(GenAtoms) THEN NumGen ELSE Len(GenAtoms))}

\* Member lists of length 0, 1 and 2.
Lists(S) == {<<>>} \cup {<<x>> : x \in S} \cup {<<x, y>> : x, y \in S}

Atoms == {Any, Aa, Bb, Cc, X, Y, Unit, Bottom, C1, C1v, C2}

Compounds(S) ==
  {And(ms) : ms \in Lists(S)} \cup {Tuple(ms) : ms \in Lists(S)}
    \cup {Product(ms) : ms \in Lists(S)}
    \cup {Arrow(p, r) : p, r \in S} \cup {Ratio(p, r) : p, r \in S}
    \cup {Named(NameCc, ms) : ms \in Lists(S)}
    \cup {Named(NameX, ms) : ms \in Lists(S)}

\* Deeper types: those of tests/mgu.rs and the shapes the unifiers treat
\* case by case.
Probes ==
  { Named(NameCc, <<Aa, Bb>>),
    And(<<Aa, Bb, Named(NameCc, <<Aa, Bb>>)>>),
    Tuple(<<Aa, Arrow(Aa, Bb)>>),
    Product(<<Aa, Arrow(Aa, Bb)>>),
    Ratio(Tuple(<<Aa, Arrow(Aa, Bb)>>), Product(<<Aa, Arrow(Aa, Bb)>>)),
    And(<<Any, Aa>>),
    And(<<Arrow(Aa, Bb), Cc>>),
    And(<<Tuple(<<Aa, Bb>>), Cc>>),
    And(<<Product(<<Aa, Bb>>), Cc>>),
    And(<<Ratio(Aa, Bb), Cc>>),
    And(<<C1, C2>>),
    Ratio(Aa, Unit),
    Ratio(X, Unit),
    Ratio(Aa, Tuple(<<Unit>>)),
    Ratio(And(<<Aa>>), Bb),
    Tuple(<<Bottom>>),
    Tuple(<<C1, C1v>>),
    Tuple(<<C1v, C1>>),
    And(<<Tuple(<<C1, C1v>>), Tuple(<<C1v, C1>>)>>),
    Arrow(And(<<Aa>>), Bb),
    Arrow(Bottom, Aa),
    And(<<And(<<Aa, Bb>>)>>),
    And(<<And(<<Aa, Bb>>), Cc>>),
    And(<<Bottom, Aa>>),
    And(<<Any, Bb>>),
    Arrow(X, Y),
    Arrow(Y, X),
    Tuple(<<X, Y>>),
    And(<<Tuple(<<X, Aa>>), Tuple(<<X, Bb>>)>>),
    And(<<Tuple(<<X, Aa>>), Tuple(<<Bb, X>>)>>),
    Tuple(<<Bb, Cc>>),
    Tuple(<<Cc, Bb>>),
    Product(<<Product(<<Aa, Bb>>), Cc>>) }

Pool == Atoms \cup Compounds(Gen) \cup Probes

---------------------------------------------------------------------------
(* The unifiers applied to a pair of types drawn from Pool.                *)

Init ==
  /\ a \in Pool
  /\ b \in Pool
  /\ op = "init"
  /\ out = Any
  /\ subs = <<>>
  /\ ks = <<>>
  /\ funcs = <<>>
  /\ compiled = <<>>
  /\ tlc = NoArena

\* a.most_general_unifier(&b)
MostGeneralUnifier ==
  /\ op = "init"
  /\ op' = "mgu"
  /\ out' = most_general_unifier(a, b)
  /\ UNCHANGED <<a, b, subs, ks, funcs, compiled, tlc>>

\* Type::And(vec![a, b]).most_general_unifier(&a), as check_plural_mgu does
PluralMgu ==
  /\ op = "init"
  /\ op' = "plural"
  /\ out' = most_general_unifier(And(<<a, b>>), a)
  /\ UNCHANGED <<a, b, subs, ks, funcs, compiled, tlc>>

\* a.implication_unifier(&b); subs is the list the descent collected
ImplicationUnifier ==
  /\ op = "init"
  /\ op' = "iu"
  /\ out' = implication_unifier(a, b)
  /\ subs' = collected_subs(a, b)
  /\ UNCHANGED <<a, b, ks, funcs, compiled, tlc>>

Next == MostGeneralUnifier \/ PluralMgu \/ ImplicationUnifier

Spec == Init /\ [][Next]_vars

---------------------------------------------------------------------------
(* normalize applied once and then again to its own result, to types of    *)
(* one more level of nesting.                                              *)

NumDeep == 2

DeepGen == {GenAtoms[i] : i \in 1..(IF NumDeep < Len(GenAtoms) THEN NumDeep ELSE Len(GenAtoms))}

Inner == Compounds(DeepGen) \cup {Aa, Bb, Cc}

NameLow == <<97, 88>>

NameXY == <<88, 89>>

\* Names of every letter case: "aX", "XY", and "Aa" and "X" nested.
MaskProbes ==
  { Named(NameLow, <<>>), Named(NameLow, <<X, Aa>>), Named(NameXY, <<>>),
    Named(NameXY, <<Aa>>), Tuple(<<Named(NameLow, <<X>>), Named(NameXY, <<Aa>>)>>),
    Arrow(Named(NameCc, <<X, Aa>>), And(<<X, C1v>>)),
    Ratio(Product(<<X, Named(NameCc, <<Bb>>)>>), Y) }

\* Conjunctions of Arrows: out of order and with one domain twice, with
\* conjunctions as domain and range, nested, and with no Arrow at all.
ArrowProbes ==
  { And(<<Arrow(Bb, Aa), Arrow(Aa, Bb), Arrow(Bb, Aa)>>),
    And(<<Arrow(And(<<Aa, Bb>>), Cc), Cc, Arrow(Aa, And(<<Bb, Cc>>))>>),
    And(<<And(<<Arrow(Bb, Cc), Arrow(Aa, Bb)>>), Arrow(Cc, Aa)>>),
    And(<<Arrow(And(<<And(<<Bb, Aa>>), Aa>>), And(<<And(<<Cc>>)>>))>>),
    And(<<Arrow(And(<<Aa>>), And(<<Bb>>))>>),
    And(<<And(<<Cc, Arrow(Aa, Bb)>>), Aa>>),
    Arrow(And(<<Bb, Aa>>), Bottom) }

\* Ratios with an atom three and four times on a side.
RatioProbes ==
  { Ratio(Product(<<X, X, X, Aa>>), Product(<<X, X, X, X>>)),
    Ratio(Product(<<X, Aa, X, X>>), Product(<<X, X>>)),
    Ratio(Product(<<Aa, Aa, Aa>>), Product(<<Aa, Aa, Aa>>)),
    Ratio(Product(<<Aa, Bb, Aa, Bb, Aa>>), Product(<<Bb, Aa, Bb, Aa, Bb, Aa>>)),
    Ratio(Product(<<Unit, Aa>>), Product(<<Aa, Unit, Unit>>)),
    Product(<<Ratio(X, Aa), Ratio(Aa, X), Ratio(X, X), X>>) }

NormPool ==
  RatioProbes \cup Pool \cup {Product(ms) : ms \in Lists(Inner)} \cup {And(ms) : ms \in Lists(Inner)}
    \cup {Tuple(ms) : ms \in Lists(Inner)} \cup {Ratio(p, r) : p, r \in Inner}
    \cup MaskProbes \cup ArrowProbes

InitNorm ==
  /\ a \in NormPool
  /\ b = Any
  /\ op = "init"
  /\ out = Any
  /\ subs = <<>>
  /\ ks = <<>>
  /\ funcs = <<>>
  /\ compiled = <<>>
  /\ tlc = NoArena

\* out = a.normalize()
Normalize ==
  /\ op = "init"
  /\ op' = "normalize"
  /\ out' = normalize(a)
  /\ UNCHANGED <<a, b, subs, ks, funcs, compiled, tlc>>

\* out = out.normalize(), on the result of Normalize
NormalizeAgain ==
  /\ op = "normalize"
  /\ op' = "normalize2"
  /\ out' = normalize(out)
  /\ UNCHANGED <<a, b, subs, ks, funcs, compiled, tlc>>

\* out = a.simplify_ratio()
SimplifyRatio ==
  /\ op = "init"
  /\ op' = "simplify_ratio"
  /\ out' = simplify_ratio(a)
  /\ UNCHANGED <<a, b, subs, ks, funcs, compiled, tlc>>

\* out = a.mask()
Mask ==
  /\ op = "init"
  /\ op' = "mask"
  /\ out' = mask(a)
  /\ UNCHANGED <<a, b, subs, ks, funcs, compiled, tlc>>

\* out = a.domain()
Domain ==
  /\ op = "init"
  /\ op' = "domain"
  /\ out' = domain(a)
  /\ UNCHANGED <<a, b, subs, ks, funcs, compiled, tlc>>

\* out = a.range()
Range ==
  /\ op = "init"
  /\ op' = "range"
  /\ out' = range(a)
  /\ UNCHANGED <<a, b, subs, ks, funcs, compiled, tlc>>

NextNorm == Normalize \/ NormalizeAgain \/ SimplifyRatio \/ Mask \/ Domain \/ Range

SpecNorm == InitNorm /\ [][NextNorm]_vars

---------------------------------------------------------------------------
(* The Kind enum (src/src/kind.rs).  A Kind is a record: k the variant     *)
(* ("Nil", "Simple", "And"), n the name of a Simple, ps the parameters of  *)
(* a Simple or the members of an And.                                      *)

KNil == [k |-> "Nil", n |-> <<>>, ps |-> <<>>]

KSimple(nm, params) == [k |-> "Simple", n |-> nm, ps |-> params]

KAnd(members) == [k |-> "And", n |-> <<>>, ps |-> members]

\* #[derive(Ord)] on Kind: the variant's position, then the fields.
KRank(x) == CASE x.k = "Nil" -> 0 [] x.k = "Simple" -> 1 [] x.k = "And" -> 2

RECURSIVE KCmp(_, _)
RECURSIVE KCmpSeq(_, _)
KCmp(x, y) ==
  IF KRank(x) # KRank(y) THEN CmpInt(KRank(x), KRank(y))
  ELSE IF CmpName(x.n, y.n) # 0 THEN CmpName(x.n, y.n)
  ELSE KCmpSeq(x.ps, y.ps)

KCmpSeq(x, y) ==
  IF x = <<>> THEN (IF y = <<>> THEN 0 ELSE -1)
  ELSE IF y = <<>> THEN 1
  ELSE IF KCmp(Head(x), Head(y)) # 0 THEN KCmp(Head(x), Head(y))
  ELSE KCmpSeq(Tail(x), Tail(y))

RECURSIVE KInsert(_, _)
KInsert(x, s) ==
  IF s = <<>> THEN <<x>>
  ELSE IF KCmp(x, Head(s)) <= 0 THEN <<x>> \o s
  ELSE <<Head(s)>> \o KInsert(x, Tail(s))

RECURSIVE KSort(_)
KSort(s) == IF s = <<>> THEN <<>> ELSE KInsert(Head(s), KSort(Tail(s)))

\* ks.retain(|k| k != &Kind::Nil)
RECURSIVE RetainNotNil(_)
RetainNotNil(s) ==
  IF s = <<>> THEN <<>>
  ELSE IF Head(s) = KNil THEN RetainNotNil(Tail(s))
  ELSE <<Head(s)>> \o RetainNotNil(Tail(s))

\* Kind::and
Kind_and(list) ==
  LET s == Dedup(KSort(RetainNotNil(list)))
  IN IF Len(s) = 0 THEN KNil
     ELSE IF Len(s) = 1 THEN s[1]
     ELSE KAnd(s)

\* Kind::flatten
Kind_flatten(x) ==
  IF x.k = "Nil" THEN <<>> ELSE IF x.k = "And" THEN x.ps ELSE <<x>>

\* Kind_has with the flattening of self lost: self is looked up whole.
HasWithoutFlatten(x, other) ==
  IF other = KNil THEN TRUE
  ELSE LET rs == Kind_flatten(other)
       IN \A i \in 1..Len(rs) : rs[i] = x

\* Kind::has
Kind_has(x, other) ==
  IF other = KNil THEN TRUE
  ELSE LET ls == Kind_flatten(x)
           rs == Kind_flatten(other)
       IN \A i \in 1..Len(rs) : \E j \in 1..Len(ls) : ls[j] = rs[i]

NameConstant == <<67, 111, 110, 115, 116, 97, 110, 116>>

\* Type::kind: the entry of the kinds table, else the "Constant" kind of a
\* Constant, the conjunction of the members' kinds of an And, else Nil.
RECURSIVE Type_kind(_, _)
Type_kind(t, kinds) ==
  IF t \in DOMAIN kinds THEN kinds[t]
  ELSE IF t.k = "Constant" THEN KSimple(NameConstant, <<>>)
  ELSE IF t.k = "And" THEN Kind_and([i \in 1..Len(t.ts) |-> Type_kind(t.ts[i], kinds)])
  ELSE KNil

---------------------------------------------------------------------------
(* Kind::has, Kind::and and Type::kind applied to kinds drawn from         *)
(* KindPool.                                                               *)

NameK == <<75>>

NameT == <<84>>

NameV == <<86>>

KK == KSimple(NameK, <<>>)

KT == KSimple(NameT, <<>>)

KV == KSimple(NameV, <<>>)

KindPool ==
  { KNil, KK, KT, KV, KSimple(NameConstant, <<>>),
    KSimple(NameK, <<KT>>), KSimple(NameK, <<KNil>>),
    KAnd(<<>>), KAnd(<<KK>>), KAnd(<<KK, KT>>), KAnd(<<KT, KK>>),
    KAnd(<<KK, KK>>), KAnd(<<KK, KNil>>), KAnd(<<KT, KV>>),
    KAnd(<<KAnd(<<KK, KT>>), KV>>) }

\* The longest list given to Kind::and.
MaxKs == 3

RECURSIVE ListsUpTo(_, _)
ListsUpTo(S, n) ==
  IF n = 0 THEN {<<>>}
  ELSE LET L == ListsUpTo(S, n - 1)
       IN L \cup {Append(l, x) : l \in {m \in L : Len(m) = n - 1}, x \in S}

InitKind ==
  /\ a \in KindPool
  /\ b \in KindPool
  /\ op = "init"
  /\ out = KNil
  /\ subs = <<>>
  /\ ks = <<>>
  /\ funcs = <<>>
  /\ compiled = <<>>
  /\ tlc = NoArena

\* out = a.has(&b)
KindHas ==
  /\ op = "init"
  /\ op' = "has"
  /\ out' = Kind_has(a, b)
  /\ UNCHANGED <<a, b, subs, ks, funcs, compiled, tlc>>

\* out = Kind::and(ks), for a list ks of a, b and Nil
KindAnd ==
  /\ op = "init"
  /\ \E list \in ListsUpTo({a, b, KNil}, MaxKs) :
       /\ ks' = list
       /\ out' = Kind_and(list)
  /\ op' = "and"
  /\ UNCHANGED <<a, b, subs, funcs, compiled, tlc>>

\* The kinds table giving Aa the kind a and Bb the kind b.
KindsOf(x, y) == [t \in {Aa, Bb} |-> IF t = Aa THEN x ELSE y]

\* out = And([Aa, Bb, [term#1]]).kind(&kinds)
TypeKind ==
  /\ op = "init"
  /\ op' = "kind"
  /\ ks' = <<a, b, KSimple(NameConstant, <<>>)>>
  /\ out' = Type_kind(And(<<Aa, Bb, C1>>), KindsOf(a, b))
  /\ UNCHANGED <<a, b, subs, funcs, compiled, tlc>>

NextKind == KindHas \/ KindAnd \/ TypeKind

SpecKind == InitKind /\ [][NextKind]_vars

---------------------------------------------------------------------------
(* The Constant enum (src/src/constant.rs).  A text is a sequence of       *)
(* character codes.  An Integer is kept as its sign and its decimal digits *)
(* without leading zeros, so that the whole range of an i64 is there.      *)

NaN == [c |-> "NaN", bv |-> FALSE, neg |-> FALSE, mag |-> <<>>, text |-> <<>>]

Boolean(x) == [c |-> "Boolean", bv |-> x, neg |-> FALSE, mag |-> <<>>, text |-> <<>>]

Integer(negative, digits) ==
  [c |-> "Integer", bv |-> FALSE, neg |-> negative, mag |-> digits, text |-> <<>>]

Op(v) == [c |-> "Op", bv |-> FALSE, neg |-> FALSE, mag |-> <<>>, text |-> v]

TextNaN == <<78, 97, 78>>

TextTrue == <<84, 114, 117, 101>>

TextFalse == <<70, 97, 108, 115, 101>>

\* The digits of i64::MAX and of the magnitude of i64::MIN.
I64MaxDigits == <<57, 50, 50, 51, 51, 55, 50, 48, 51, 54, 56, 53, 52, 55, 55, 53, 56, 48, 55>>

I64MinDigits == <<57, 50, 50, 51, 51, 55, 50, 48, 51, 54, 56, 53, 52, 55, 55, 53, 56, 48, 56>>

\* The digits of the magnitude of i64::MIN - 1.
BelowI64Min == <<57, 50, 50, 51, 51, 55, 50, 48, 51, 54, 56, 53, 52, 55, 55, 53, 56, 48, 57>>

IsDigit(ch) == ch >= 48 /\ ch <= 57

\* Leading zeros dropped, the last digit kept.
RECURSIVE StripZeros(_)
StripZeros(ds) ==
  IF Len(ds) > 1 /\ Head(ds) = 48 THEN StripZeros(Tail(ds)) ELSE ds

\* x <= y for two digit texts without leading zeros.
LeqDigits(x, y) ==
  Len(x) < Len(y) \/ (Len(x) = Len(y) /\ CmpName(x, y) <= 0)

\* InI64 with the overflow test lost.
InI64Unchecked(negative, digits) == TRUE

\* The overflow test of str::parse::<i64>.
InI64(negative, digits) ==
  LeqDigits(digits, IF negative THEN I64MinDigits ELSE I64MaxDigits)

\* v.parse::<i64>(): an optional sign, then one digit or more, in range.
ParseI64(v) ==
  LET signed == Len(v) > 0 /\ (v[1] = 43 \/ v[1] = 45)
      ds == IF signed THEN Tail(v) ELSE v
      negative == signed /\ v[1] = 45
      digits == StripZeros(ds)
  IN IF Len(ds) > 0 /\ (\A i \in 1..Len(ds) : IsDigit(ds[i])) /\ InI64(negative, digits)
     THEN [ok |-> TRUE, val |-> Integer(negative /\ digits # <<48>>, digits)]
     ELSE [ok |-> FALSE, val |-> NaN]

\* Constant::parse; the result is the constant inside the Some.
Constant_parse(v) ==
  IF v = TextNaN THEN NaN
  ELSE IF v = TextTrue THEN Boolean(TRUE)
  ELSE IF v = TextFalse THEN Boolean(FALSE)
  ELSE IF ParseI64(v).ok THEN ParseI64(v).val
  ELSE Op(v)

\* impl Debug for Constant, without the Tuple arm parse never produces.
Constant_fmt(x) ==
  CASE x.c = "NaN" -> TextNaN
    [] x.c = "Boolean" -> IF x.bv THEN TextTrue ELSE TextFalse
    [] x.c = "Integer" -> (IF x.neg THEN <<45>> ELSE <<>>) \o x.mag
    [] x.c = "Op" -> x.text

---------------------------------------------------------------------------
(* Constant::parse applied to a text, the result rendered and the          *)
(* rendering parsed again.                                                 *)

\* The longest generated text.
MaxText == 3

\* 0, 1, 9, +, - and a
TextChars == {48, 49, 57, 43, 45, 97}

TextProbes ==
  { TextNaN, TextTrue, TextFalse, I64MaxDigits, I64MinDigits,
    <<45>> \o I64MinDigits, <<45>> \o I64MaxDigits, <<43>> \o I64MaxDigits,
    <<48>> \o I64MinDigits, I64MaxDigits \o <<48>>,
    <<45>> \o BelowI64Min,
    <<116, 114, 117, 101>>, <<110, 97, 110>>, <<49, 46, 53>>, <<48, 120, 49>>, <<32, 49>> }

Texts == ListsUpTo(TextChars, MaxText) \cup TextProbes

InitConst ==
  /\ a \in Texts
  /\ b = <<>>
  /\ op = "init"
  /\ out = NaN
  /\ subs = <<>>
  /\ ks = <<>>
  /\ funcs = <<>>
  /\ compiled = <<>>
  /\ tlc = NoArena

\* out = Constant::parse(tlc, a).unwrap()
Parse ==
  /\ op = "init"
  /\ op' = "parse"
  /\ out' = Constant_parse(a)
  /\ UNCHANGED <<a, b, subs, ks, funcs, compiled, tlc>>

\* b = format!("{:?}", out)
Render ==
  /\ op = "parse"
  /\ op' = "fmt"
  /\ b' = Constant_fmt(out)
  /\ UNCHANGED <<a, out, subs, ks, funcs, compiled, tlc>>

\* out = Constant::parse(tlc, b).unwrap()
ParseAgain ==
  /\ op = "fmt"
  /\ op' = "parse2"
  /\ out' = Constant_parse(b)
  /\ UNCHANGED <<a, b, subs, ks, funcs, compiled, tlc>>

NextConst == Parse \/ Render \/ ParseAgain

SpecConst == InitConst /\ [][NextConst]_vars

---------------------------------------------------------------------------
(* The Term enum and the rows of terms (src/src/term.rs).  A TermId is an  *)
(* index into rows, from 1.  A term is a record: t the variant, s the name *)
(* of an Ident or a Let or the text of a Value, c the TermIds it holds, ty *)
(* an optional type (<<>> for None, <<T>> for Some(T)), sc its scope (0    *)
(* for None), of a Let, params the parameter groups, rtype and ext, of a   *)
(* Match, arms the (scope, lhs, rhs) triples, and typ the type of the row. *)

TermOf(variant) ==
  [t |-> variant, s |-> <<>>, c |-> <<>>, ty |-> <<>>, sc |-> 0,
   params |-> <<>>, rtype |-> Any, ext |-> FALSE, arms |-> <<>>, typ |-> Any]

Term_Ident(nm) == [TermOf("Ident") EXCEPT !.s = nm]

Term_Value(text) == [TermOf("Value") EXCEPT !.s = text]

Term_Arrow(scope, p, typ, body) ==
  [TermOf("Arrow") EXCEPT !.sc = scope, !.c = <<p, body>>, !.ty = typ]

Term_App(g, x) == [TermOf("App") EXCEPT !.c = <<g, x>>]

Term_Tuple(ids) == [TermOf("Tuple") EXCEPT !.c = ids]

Term_Block(scope, ids) == [TermOf("Block") EXCEPT !.sc = scope, !.c = ids]

Term_Ascript(id, typ) == [TermOf("Ascript") EXCEPT !.c = <<id>>, !.ty = <<typ>>]

\* Match(dv, []): the scrutinee, no arms
Term_Match(dv) == [TermOf("Match") EXCEPT !.c = <<dv>>]

Term_Literal == TermOf("Literal")

Term_Fail == TermOf("Fail")

\* A parameter: an optional name and an optional type.
Param(nm, typ) == [name |-> nm, typ |-> typ]

\* A Let that is not extern: its name, parameter groups, body (<<>> for
\* None, <<id>> for Some) and return type.
Term_Let(nm, groups, body, ret) ==
  [TermOf("Let") EXCEPT !.s = nm, !.params = groups, !.c = body, !.rtype = ret]

\* An extern Let: its body is the Ident holding the foreign symbol.
Term_Extern(nm, groups, body, ret) ==
  [TermOf("Let") EXCEPT !.s = nm, !.params = groups, !.c = body, !.rtype = ret,
                        !.ext = TRUE]

\* The same term with typ as the type of its row and scope as its scope.
Typed(term, typ, scope) == [term EXCEPT !.typ = typ, !.sc = scope]

\* TermEqualsShallow: Term::equals with the recursion into Tuple members
\* lost, the lengths alone compared.
RECURSIVE TermEqualsShallow(_, _, _)
TermEqualsShallow(rows, lt, rt) ==
  LET l == rows[lt]
      r == rows[rt]
  IN CASE l.t = "Ident" /\ r.t = "Ident" -> l.s = r.s
       [] l.t = "Value" /\ r.t = "Value" -> l.s = r.s
       [] l.t = "Arrow" /\ r.t = "Arrow" ->
            /\ TermEqualsShallow(rows, l.c[1], r.c[1])
            /\ l.ty = r.ty
            /\ TermEqualsShallow(rows, l.c[2], r.c[2])
       [] l.t = "App" /\ r.t = "App" ->
            /\ TermEqualsShallow(rows, l.c[1], r.c[1])
            /\ TermEqualsShallow(rows, l.c[2], r.c[2])
       [] l.t = "Tuple" /\ r.t = "Tuple" -> Len(l.c) = Len(r.c)
       [] OTHER -> FALSE

\* Term::equals
RECURSIVE Term_equals(_, _, _)
Term_equals(rows, lt, rt) ==
  LET l == rows[lt]
      r == rows[rt]
  IN CASE l.t = "Ident" /\ r.t = "Ident" -> l.s = r.s
       [] l.t = "Value" /\ r.t = "Value" -> l.s = r.s
       [] l.t = "Arrow" /\ r.t = "Arrow" ->
            /\ Term_equals(rows, l.c[1], r.c[1])
            /\ l.ty = r.ty
            /\ Term_equals(rows, l.c[2], r.c[2])
       [] l.t = "App" /\ r.t = "App" ->
            /\ Term_equals(rows, l.c[1], r.c[1])
            /\ Term_equals(rows, l.c[2], r.c[2])
       [] l.t = "Tuple" /\ r.t = "Tuple" ->
            IF Len(l.c) # Len(r.c) THEN FALSE
            ELSE \A i \in 1..Len(l.c) : Term_equals(rows, l.c[i], r.c[i])
       [] OTHER -> FALSE

---------------------------------------------------------------------------
(* The rows Term::equals is applied to: 1 + 2 * 3 twice, as the            *)
(* application of + to the tuple of 1 and the application of * to (2, 3),  *)
(* and terms of the other shapes.                                          *)

TextPlus == <<43>>

TextTimes == <<42>>

Text1 == <<49>>

Text2 == <<50>>

Text3 == <<51>>

TextX == <<120>>

TextF == <<102>>

EqRows ==
  << Term_Value(Text1), Term_Value(Text2), Term_Value(Text3),
     Term_Ident(TextTimes), Term_Tuple(<<2, 3>>), Term_App(4, 5),
     Term_Ident(TextPlus), Term_Tuple(<<1, 6>>), Term_App(7, 8),
     Term_Value(Text1), Term_Value(Text2), Term_Value(Text3),
     Term_Ident(TextTimes), Term_Tuple(<<11, 12>>), Term_App(13, 14),
     Term_Ident(TextPlus), Term_Tuple(<<10, 15>>), Term_App(16, 17),
     Term_Tuple(<<3, 2>>), Term_App(4, 19),
     Term_Ident(TextX),
     Term_Arrow(1, 21, <<Aa>>, 1), Term_Arrow(2, 21, <<Aa>>, 10),
     Term_Arrow(0, 21, <<>>, 1), Term_Arrow(1, 21, <<Bb>>, 1),
     Term_Tuple(<<>>), Term_Tuple(<<>>), Term_Tuple(<<1>>),
     Term_Ascript(1, Aa), Term_Ascript(10, Aa),
     Term_Let(TextF, <<<<Param(<<TextX>>, <<Aa>>)>>>>, <<1>>, Aa),
     Term_Block(1, <<1>>), Term_Match(1), Term_Literal, Term_Fail,
     Term_Tuple(<<1, 29>>), Term_Tuple(<<10, 30>>),
     Term_Tuple(<<1, 2>>), Term_Tuple(<<2, 1>>),
     Term_Ident(Text1), Term_Value(TextX) >>

InitTerm ==
  /\ a \in 1..Len(EqRows)
  /\ b \in 1..Len(EqRows)
  /\ op = "init"
  /\ out = FALSE
  /\ subs = <<>>
  /\ ks = <<>>
  /\ funcs = <<>>
  /\ compiled = <<>>
  /\ tlc = NoArena

\* out = Term::equals(tlc, a, b)
Equals ==
  /\ op = "init"
  /\ op' = "equals"
  /\ out' = Term_equals(EqRows, a, b)
  /\ UNCHANGED <<a, b, subs, ks, funcs, compiled, tlc>>

NextTerm == Equals

SpecTerm == InitTerm /\ [][NextTerm]_vars

---------------------------------------------------------------------------
(* impl Debug for Type and the mangled name of compile_function.           *)

\* The decimal digits of a natural number.
RECURSIVE DecimalOf(_)
DecimalOf(i) ==
  IF i < 10 THEN <<48 + i>> ELSE DecimalOf(i \div 10) \o <<48 + (i % 10)>>

\* .collect::<Vec<String>>().join(sep)
RECURSIVE Join(_, _)
Join(texts, sep) ==
  IF texts = <<>> THEN <<>>
  ELSE IF Len(texts) = 1 THEN texts[1]
  ELSE texts[1] \o sep \o Join(Tail(texts), sep)

\* format!("{:?}", t)
RECURSIVE Type_fmt(_)
Type_fmt(t) ==
  LET parts == [i \in 1..Len(t.ts) |-> Type_fmt(t.ts[i])]
  IN CASE t.k = "Any" -> <<63>>
       [] t.k = "Named" ->
            IF Len(t.ts) = 0 THEN t.n
            ELSE t.n \o <<60>> \o Join(parts, <<44>>) \o <<62>>
       [] t.k = "And" -> <<123>> \o Join(parts, <<43>>) \o <<125>>
       [] t.k = "Tuple" -> <<40>> \o Join(parts, <<44>>) \o <<41>>
       [] t.k = "Product" -> <<40>> \o Join(parts, <<42>>) \o <<41>>
       [] t.k = "Arrow" -> <<40>> \o parts[1] \o <<41, 61, 62, 40>> \o parts[2] \o <<41>>
       [] t.k = "Ratio" -> <<40>> \o parts[1] \o <<41, 47, 40>> \o parts[2] \o <<41>>
       [] t.k = "Constant" ->
            <<91>> \o (IF t.v THEN <<39>> ELSE <<>>) \o <<116, 101, 114, 109, 35>> \o DecimalOf(t.id) \o <<93>>

\* The text of one parameter group: the types of the typed parameters, a
\* comma before each one that is not the first parameter of the group.
RECURSIVE GroupText(_, _)
GroupText(ps, ai) ==
  IF ai > Len(ps) THEN <<>>
  ELSE (IF ps[ai].typ # <<>>
        THEN (IF ai > 1 THEN <<44>> ELSE <<>>) \o Type_fmt(ps[ai].typ[1])
        ELSE <<>>) \o GroupText(ps, ai + 1)

RECURSIVE GroupsText(_)
GroupsText(groups) ==
  IF groups = <<>> THEN <<>>
  ELSE <<40>> \o GroupText(Head(groups), 1) \o <<41, 45, 62>> \o GroupsText(Tail(groups))

\* The mangled name of a Let: name:(types)->...->rtype
mangled(lt) == lt.s \o <<58>> \o GroupsText(lt.params) \o Type_fmt(lt.rtype)

---------------------------------------------------------------------------
(* Lowering: compile_lhs, compile_function and compile_expr.  An           *)
(* Expression is a record: e the form ("unit", "literal", "variable",      *)
(* "apply", "pattern"), v the literal text or the name applied, id the     *)
(* TermId of a variable, args the arguments of an apply or the scrutinee   *)
(* of a pattern, arms the lowered arms.  The data-type tags are left out.  *)
(* A call returns [ok, val, funcs, compiled, pre]: ok is FALSE when the    *)
(* call panicked, val is the Ok value, funcs and pre are the function list *)
(* and the preamble as the call left them.                                 *)

ExprOf(form) == [e |-> form, v |-> <<>>, id |-> 0, args |-> <<>>, arms |-> <<>>]

Expression_unit == ExprOf("unit")

Expression_literal(text) == [ExprOf("literal") EXCEPT !.v = text]

Expression_variable(id) == [ExprOf("variable") EXCEPT !.id = id]

Expression_apply(nm, args) == [ExprOf("apply") EXCEPT !.v = nm, !.args = args]

Expression_pattern(pe, plrs) == [ExprOf("pattern") EXCEPT !.args = <<pe>>, !.arms = plrs]

\* LHSPart::any(), LHSPart::literal(v), LHSPart::variable(id)
LHSPart(form, text, id) == [e |-> form, v |-> text, id |-> id]

FunctionDefinition(nm, args, body) == [name |-> nm, args |-> args, body |-> body]

St(fs, cp, pr) == [funcs |-> fs, compiled |-> cp, pre |-> pr]

Ok(val, st) ==
  [ok |-> TRUE, val |-> val, funcs |-> st.funcs, compiled |-> st.compiled,
   pre |-> st.pre]

\* panic!, unimplemented!, unreachable! and a failed expect
Panic(st) ==
  [ok |-> FALSE, val |-> <<>>, funcs |-> st.funcs, compiled |-> st.compiled,
   pre |-> st.pre]

\* Scope::lookup_term: from scope up through the parents, the first child
\* of that name whose type is compatible with the required one; 0 for None.
\* A scope is [parent, children], a child [name, typ, term, accepts], with
\* accepts the required types the child's type is compatible with.
RECURSIVE lookup_term(_, _, _, _)
lookup_term(scopes, scope, nm, required) ==
  IF scope = 0 THEN 0
  ELSE LET cs == scopes[scope].children
           hits == {i \in 1..Len(cs) :
                      /\ cs[i].name = nm
                      /\ required \in cs[i].accepts}
       IN IF hits # {} THEN cs[CHOOSE i \in hits : \A j \in hits : i <= j].term
          ELSE lookup_term(scopes, scopes[scope].parent, nm, required)

TextWild == <<95>>

TextFlatmap == <<46, 102, 108, 97, 116, 109, 97, 112>>

\* Term::compile_lhs; val is the LHSPart
RECURSIVE compile_lhs(_, _, _, _)
compile_lhs(rows, scopes, scope, term) ==
  LET r == rows[term]
  IN CASE r.t = "Value" -> [ok |-> TRUE, val |-> LHSPart("literal", r.s, 0)]
       [] r.t = "Ident" ->
            IF r.s = TextWild THEN [ok |-> TRUE, val |-> LHSPart("any", <<>>, 0)]
            ELSE LET found == lookup_term(scopes, scope, r.s, r.typ)
                 IN IF found = 0 THEN [ok |-> FALSE, val |-> LHSPart("any", <<>>, 0)]
                    ELSE [ok |-> TRUE, val |-> LHSPart("variable", <<>>, found)]
       [] r.t = "Ascript" -> compile_lhs(rows, scopes, scope, r.c[1])
       [] OTHER -> [ok |-> FALSE, val |-> LHSPart("any", <<>>, 0)]

\* HasDef with the first definition of funcs passed over.
HasDefButFirst(fs, nm) == \E i \in 2..Len(fs) : fs[i].name = nm

\* for fd in funcs.iter() { if fd.name == mangled { return Ok(mangled); } }
HasDef(fs, nm) == \E i \in 1..Len(fs) : fs[i].name = nm

\* SetBody writing the body of the last definition, whatever its name.
SetBodyOfLast(fs, nm, body) == [fs EXCEPT ![Len(fs)].body = body]

\* for fd in funcs.iter_mut() { if fd.name == mangled { fd.body = preamble; break; } }
SetBody(fs, nm, body) ==
  LET first == CHOOSE i \in 1..Len(fs) :
                 fs[i].name = nm /\ \A j \in 1..(i - 1) : fs[j].name # nm
  IN IF HasDef(fs, nm) THEN [fs EXCEPT ![first].body = body] ELSE fs

\* The loop over lt.parameters[0]: every parameter is named, typed and
\* found in the scope of the Let.
ArgsChecked(scopes, lt) ==
  \A i \in 1..Len(lt.params[1]) :
    LET arg == lt.params[1][i]
    IN /\ arg.name # <<>>
       /\ arg.typ # <<>>
       /\ lookup_term(scopes, lt.sc, arg.name[1], arg.typ[1]) # 0

\* l1_args: the TermId each parameter resolves to
L1Args(scopes, lt) ==
  [i \in 1..Len(lt.params[1]) |->
     IF lt.params[1][i].name # <<>> /\ lt.params[1][i].typ # <<>>
     THEN lookup_term(scopes, lt.sc, lt.params[1][i].name[1], lt.params[1][i].typ[1])
     ELSE 0]

RECURSIVE compile_function(_, _, _, _)
RECURSIVE compile_expr(_, _, _, _, _)
RECURSIVE CompileArgs(_, _, _, _, _, _)
RECURSIVE CompileStmts(_, _, _, _, _)
RECURSIVE CompileArms(_, _, _, _, _)

\* Term::compile_function; st.pre is the caller's preamble, which the
\* function does not see: the body is lowered into a preamble of its own.
compile_function(rows, scopes, st, term) ==
  LET lt == rows[term]
      nm == mangled(lt)
  IN IF lt.t # "Let" THEN Panic(st)
     ELSE IF HasDef(st.funcs, nm) THEN Ok(nm, st)
     ELSE IF Len(lt.params) = 0 THEN Panic(st)
     ELSE IF Len(lt.params) > 1 THEN Panic(st)
     ELSE IF ~ArgsChecked(scopes, lt) THEN Panic(st)
     ELSE LET pushed == Append(st.funcs, FunctionDefinition(nm, L1Args(scopes, lt), <<>>))
          IN IF lt.c = <<>>
             THEN Ok(nm, St(SetBody(pushed, nm, <<>>), st.compiled, st.pre))
             ELSE LET ret == compile_expr(rows, scopes, lt.sc,
                                          St(pushed, Append(st.compiled, nm), <<>>),
                                          lt.c[1])
                  IN IF ~ret.ok THEN Panic(St(ret.funcs, ret.compiled, st.pre))
                     ELSE Ok(nm, St(SetBody(ret.funcs, nm, Append(ret.pre, ret.val)),
                                    ret.compiled, st.pre))

\* for p in ps.iter() { args.push(Term::compile_expr(.., *p)?); }
CompileArgs(rows, scopes, scope, st, ps, args) ==
  IF ps = <<>> THEN Ok(args, st)
  ELSE LET r == compile_expr(rows, scopes, scope, st, Head(ps))
       IN IF ~r.ok THEN r
          ELSE CompileArgs(rows, scopes, scope, St(r.funcs, r.compiled, r.pre),
                           Tail(ps), Append(args, r.val))

\* CompileStmts with each lowered statement put in front of the preamble.
RECURSIVE CompileStmtsPrepends(_, _, _, _, _)
CompileStmtsPrepends(rows, scopes, scope, st, es) ==
  LET r == compile_expr(rows, scopes, scope, st, Head(es))
  IN IF Len(es) = 1 \/ ~r.ok THEN r
     ELSE CompileStmtsPrepends(rows, scopes, scope,
                               St(r.funcs, r.compiled, <<r.val>> \o r.pre), Tail(es))

\* The Block arm: all statements but the last are lowered and pushed on the
\* preamble, the last one is lowered and returned.
CompileStmts(rows, scopes, scope, st, es) ==
  LET r == compile_expr(rows, scopes, scope, st, Head(es))
  IN IF Len(es) = 1 \/ ~r.ok THEN r
     ELSE CompileStmts(rows, scopes, scope,
                       St(r.funcs, r.compiled, Append(r.pre, r.val)), Tail(es))

\* An extern binding called by its own name instead of the symbol it stores.
ExternSymbolOwnName(rows, lb) == lb.s

\* The callee of a call to an extern binding: the identifier stored as the
\* body of the binding.
ExternSymbol(rows, lb) == rows[lb.c[1]].s

\* The loop of the Match arm over the (scope, lhs, rhs) triples.
CompileArms(rows, scopes, st, lrs, plrs) ==
  IF lrs = <<>> THEN Ok(plrs, st)
  ELSE LET lhs == compile_lhs(rows, scopes, Head(lrs)[1], Head(lrs)[2])
           rhs == compile_expr(rows, scopes, Head(lrs)[1], st, Head(lrs)[3])
       IN IF ~lhs.ok THEN Panic(st)
          ELSE IF ~rhs.ok THEN rhs
          ELSE CompileArms(rows, scopes, St(rhs.funcs, rhs.compiled, rhs.pre),
                           Tail(lrs), Append(plrs, <<lhs.val, rhs.val>>))

\* Term::compile_expr; scope is 0 for None
compile_expr(rows, scopes, scope, st, term) ==
  LET r == rows[term]
  IN CASE r.t = "Let" -> Ok(Expression_unit, st)
       [] r.t = "Tuple" /\ Len(r.c) = 0 -> Ok(Expression_unit, st)
       [] r.t = "Value" -> Ok(Expression_literal(r.s), st)
       [] r.t = "Ident" ->
            LET found == lookup_term(scopes, scope, r.s, r.typ)
            IN IF scope = 0 \/ found = 0 THEN Panic(st)
               ELSE Ok(Expression_variable(found), st)
       [] r.t = "Ascript" -> compile_expr(rows, scopes, scope, st, r.c[1])
       [] r.t = "Block" ->
            IF Len(r.c) = 0 THEN Ok(Expression_unit, st)
            ELSE CompileStmts(rows, scopes, r.sc, st, r.c)
       [] r.t = "Match" ->
            LET pe == compile_expr(rows, scopes, scope, st, r.c[1])
                as == CompileArms(rows, scopes, St(pe.funcs, pe.compiled, pe.pre),
                                  r.arms, <<>>)
            IN IF ~pe.ok THEN pe
               ELSE IF ~as.ok THEN as
               ELSE Ok(Expression_pattern(pe.val, as.val), St(as.funcs, as.compiled, as.pre))
       [] r.t = "App" ->
            LET g == rows[r.c[1]]
                x == rows[r.c[2]]
            IN IF scope = 0 THEN Panic(st)
               ELSE IF ~(g.t = "Ident" /\ x.t = "Tuple") THEN Panic(st)
               ELSE IF g.s = TextFlatmap /\ Len(x.c) = 2 THEN Panic(st)
               ELSE
                 LET args == CompileArgs(rows, scopes, scope, st, x.c, <<>>)
                     after == St(args.funcs, args.compiled, args.pre)
                     binding == lookup_term(scopes, scope, g.s, g.typ)
                     lb == rows[binding]
                 IN IF ~args.ok THEN args
                    ELSE IF binding = 0 THEN Panic(after)
                    ELSE IF lb.t # "Let" THEN Panic(after)
                    ELSE IF Len(lb.params) > 1 THEN Panic(after)
                    ELSE IF lb.ext THEN
                      (IF lb.c = <<>> THEN Panic(after)
                       ELSE IF rows[lb.c[1]].t # "Ident" THEN Panic(after)
                       ELSE Ok(Expression_apply(ExternSymbol(rows, lb), args.val), after))
                    ELSE
                      LET cf == compile_function(rows, scopes, after, binding)
                      IN IF ~cf.ok THEN cf
                         ELSE Ok(Expression_apply(cf.val, args.val),
                                 St(cf.funcs, cf.compiled, cf.pre))
       [] OTHER -> Panic(st)

---------------------------------------------------------------------------
(* The rows and scopes the lowering is applied to.  Rows 3 to 12 are Let   *)
(* bindings of the one name f: with one parameter of type Aa, (Aa), (Aa)   *)
(* as a Product, and Bb, with no parameter, with an untyped, an unnamed    *)
(* and a second untyped parameter, with no parameter group and with two.   *)

TextG == <<103>>

TextH == <<104>>

TextE == <<101>>

TextK == <<107>>

TextY == <<121>>

TextSym == <<101, 95, 115, 121, 109>>

TextZz == <<122, 122>>

TextM == <<109>>

TextN == <<110>>

TextP == <<112>>

FnType == Arrow(Aa, Aa)

CompRows ==
  << Term_Value(Text1),
     Typed(Term_Ident(TextX), Aa, 0),
     Typed(Term_Let(TextF, <<<<Param(<<TextX>>, <<Aa>>)>>>>, <<2>>, Aa), Any, 2),
     Typed(Term_Let(TextF, <<<<Param(<<TextX>>, <<Tuple(<<Aa>>)>>)>>>>, <<1>>, Aa), Any, 3),
     Typed(Term_Let(TextF, <<<<Param(<<TextX>>, <<Product(<<Aa>>)>>)>>>>, <<1>>, Aa), Any, 4),
     Typed(Term_Let(TextF, <<<<>>>>, <<1>>, Aa), Any, 1),
     Typed(Term_Let(TextF, <<<<Param(<<TextX>>, <<>>)>>>>, <<1>>, Aa), Any, 2),
     Typed(Term_Let(TextF, <<<<Param(<<>>, <<Aa>>)>>>>, <<1>>, Aa), Any, 2),
     Typed(Term_Let(TextF, <<>>, <<1>>, Aa), Any, 1),
     Typed(Term_Let(TextF, <<<<Param(<<TextX>>, <<Aa>>)>>, <<Param(<<TextY>>, <<Bb>>)>>>>,
                    <<1>>, Aa), Any, 2),
     Typed(Term_Let(TextF, <<<<Param(<<TextX>>, <<Aa>>), Param(<<TextY>>, <<>>)>>>>,
                    <<1>>, Aa), Any, 2),
     Typed(Term_Let(TextF, <<<<Param(<<TextX>>, <<Bb>>)>>>>, <<1>>, Aa), Any, 5),
     Typed(Term_Ident(TextF), FnType, 0),
     Term_Tuple(<<2>>),
     Term_App(13, 14),
     Typed(Term_Let(TextG, <<<<Param(<<TextX>>, <<Aa>>)>>>>, <<15>>, Aa), Any, 2),
     Typed(Term_Ident(TextH), FnType, 0),
     Term_App(17, 14),
     Typed(Term_Let(TextH, <<<<Param(<<TextX>>, <<Aa>>)>>>>, <<18>>, Aa), Any, 2),
     Typed(Term_Ident(TextE), FnType, 0),
     Term_Ident(TextSym),
     Typed(Term_Extern(TextE, <<<<Param(<<TextX>>, <<Aa>>)>>>>, <<21>>, Aa), Any, 2),
     Term_App(20, 14),
     Typed(Term_Let(TextK, <<<<Param(<<TextX>>, <<Aa>>)>>>>, <<>>, Aa), Any, 2),
     Term_Block(2, <<15, 18, 1>>),
     Term_Tuple(<<1>>),
     Term_App(13, 26),
     Term_Ascript(27, Aa),
     Term_Tuple(<<>>),
     [Term_Match(1) EXCEPT !.arms = <<<<2, 31, 1>>, <<2, 1, 15>>>>],
     Term_Ident(TextWild),
     Term_App(1, 14),
     Typed(Term_Ident(TextZz), FnType, 0),
     Term_App(33, 14),
     Term_Fail,
     Term_Block(2, <<>>),
     Term_Block(2, <<2, 1>>),
     Term_Block(2, <<1, 37, 25, 2>>),
     Term_Block(2, <<1, 37>>),
     Term_Block(2, <<36, 38, 36>>),
     Typed(Term_Ident(TextM), FnType, 0),
     Typed(Term_Ident(TextN), FnType, 0),
     Term_App(42, 14),
     Term_App(41, 14),
     Typed(Term_Let(TextM, <<<<Param(<<TextX>>, <<Aa>>)>>>>, <<43>>, Aa), Any, 2),
     Typed(Term_Let(TextN, <<<<Param(<<TextX>>, <<Aa>>)>>>>, <<44>>, Aa), Any, 2),
     Typed(Term_Let(TextP, <<<<Param(<<TextX>>, <<Aa>>)>>>>, <<25>>, Aa), Any, 2),
     Term_Block(2, <<23, 15>>) >>

Child(nm, typ, term) == [name |-> nm, typ |-> typ, term |-> term]

Scope(parent, children) == [parent |-> parent, children |-> children]

\* The types a lookup can require: those of the rows and of the parameters.
TypesOf(rows) ==
  {rows[i].typ : i \in 1..Len(rows)}
    \cup UNION {UNION {{rows[i].params[g][j].typ[1] :
                         j \in {k \in 1..Len(rows[i].params[g]) :
                                  rows[i].params[g][k].typ # <<>>}} :
                       g \in 1..Len(rows[i].params)} :
                i \in 1..Len(rows)}

\* Compatibility is the implication unifier of the declared type and the
\* required one not being bottom.
Accepts(declared, rows) ==
  {required \in TypesOf(rows) : ~is_bottom(implication_unifier(declared, required))}

\* The scopes with the compatible types of every child worked out.
Resolved(scopes, rows) ==
  [s \in 1..Len(scopes) |->
     Scope(scopes[s].parent,
           [i \in 1..Len(scopes[s].children) |->
              [name |-> scopes[s].children[i].name,
               typ |-> scopes[s].children[i].typ,
               term |-> scopes[s].children[i].term,
               accepts |-> Accepts(scopes[s].children[i].typ, rows)]])]

\* Scope 1 binds the functions, scopes 2 to 5 the parameter x of each type.
DeclaredScopes ==
  << Scope(0, << Child(TextF, FnType, 3), Child(TextF, Arrow(Bb, Aa), 12),
                 Child(TextG, FnType, 16), Child(TextH, FnType, 19),
                 Child(TextE, FnType, 22), Child(TextK, FnType, 24),
                 Child(TextM, FnType, 45), Child(TextN, FnType, 46),
                 Child(TextP, FnType, 47) >>),
     Scope(1, <<Child(TextX, Aa, 2)>>),
     Scope(1, <<Child(TextX, Tuple(<<Aa>>), 2)>>),
     Scope(1, <<Child(TextX, Product(<<Aa>>), 2)>>),
     Scope(1, <<Child(TextX, Bb, 2)>>) >>

CompScopes == Resolved(DeclaredScopes, CompRows)

\* The most definitions funcs holds when a call is made.
MaxFuncs == 3

CallResult(r, scope) == [ok |-> r.ok, val |-> r.val, pre |-> r.pre, scope |-> scope]

\* No call has been made: a is no TermId, b is the funcs before the call.
InitCompile ==
  /\ a = 0
  /\ b = <<>>
  /\ op = "init"
  /\ out = [ok |-> TRUE, val |-> <<>>, pre |-> <<>>, scope |-> 0]
  /\ subs = <<>>
  /\ ks = <<>>
  /\ funcs = <<>>
  /\ compiled = <<>>
  /\ tlc = NoArena

\* out = Term::compile_function(tlc, scope, &mut funcs, term); a panic ends
\* the run.
CompileFunction ==
  /\ out.ok
  /\ Len(funcs) < MaxFuncs
  /\ \E term \in 1..Len(CompRows) :
       LET r == compile_function(CompRows, CompScopes, St(funcs, compiled, <<>>), term)
       IN /\ a' = term
          /\ out' = CallResult(r, 0)
          /\ funcs' = r.funcs
          /\ compiled' = r.compiled
  /\ b' = funcs
  /\ op' = "compile_function"
  /\ UNCHANGED <<subs, ks, tlc>>

\* out = Term::compile_expr(tlc, scope, &mut funcs, &mut preamble, term) on
\* an empty preamble, as Term::reduce calls it.
CompileExpr ==
  /\ out.ok
  /\ Len(funcs) < MaxFuncs
  /\ \E term \in 1..Len(CompRows), scope \in {0, 1, 2} :
       LET r == compile_expr(CompRows, CompScopes, scope, St(funcs, compiled, <<>>), term)
       IN /\ a' = term
          /\ out' = CallResult(r, scope)
          /\ funcs' = r.funcs
          /\ compiled' = r.compiled
  /\ b' = funcs
  /\ op' = "compile_expr"
  /\ UNCHANGED <<subs, ks, tlc>>

NextCompile == CompileFunction \/ CompileExpr

SpecCompile == InitCompile /\ [][NextCompile]_vars

---------------------------------------------------------------------------
(* Term::scope_of_lhs on an arena of rows and scopes.                      *)

\* A row of tlc.rows: the term, its type, its kind and its span.
Row(term, typ, knd, span) == [term |-> term, typ |-> typ, kind |-> knd, span |-> span]

\* A child of a scope: (String, HashMap<Type,Kind>, Type, Option<TermId>)
ScopeChild(nm, kinds, typ, term) ==
  [name |-> nm, kinds |-> kinds, typ |-> typ, term |-> term]

\* tlc.push_scope(scope): the scope is appended and its ScopeId returned
push_scope(arena, scope) ==
  [tlc |-> [arena EXCEPT !.scopes = Append(@, scope)], sid |-> Len(arena.scopes) + 1]

\* scope_of_lhs_impl with the Ascript arm writing the type of the ascription
\* row only, not that of the inner row.
RECURSIVE ImplRetypesHostOnly(_, _, _)
ImplRetypesHostOnly(arena, children, lhs) ==
  LET term == arena.rows[lhs].term
  IN CASE term.t = "Ident" /\ term.s = TextWild ->
            [ok |-> TRUE, tlc |-> arena, children |-> children]
       [] term.t = "Ident" /\ term.s # TextWild ->
            [ok |-> TRUE, tlc |-> arena,
             children |-> Append(children,
                                 ScopeChild(term.s, EmptyMap, arena.rows[lhs].typ, <<lhs>>))]
       [] term.t = "Ascript" ->
            ImplRetypesHostOnly([arena EXCEPT !.rows[lhs].typ = term.ty[1]],
                                children, term.c[1])
       [] OTHER -> [ok |-> FALSE, tlc |-> arena, children |-> children]

\* Term::scope_of_lhs_impl; the term matched on is a clone taken before
\* the rows are written.
RECURSIVE scope_of_lhs_impl(_, _, _)
scope_of_lhs_impl(arena, children, lhs) ==
  LET term == arena.rows[lhs].term
  IN CASE term.t = "Ident" /\ term.s = TextWild ->
            [ok |-> TRUE, tlc |-> arena, children |-> children]
       [] term.t = "Ident" /\ term.s # TextWild ->
            [ok |-> TRUE, tlc |-> arena,
             children |-> Append(children,
                                 ScopeChild(term.s, EmptyMap, arena.rows[lhs].typ, <<lhs>>))]
       [] term.t = "Ascript" ->
            LET lt == term.c[1]
                ltt == term.ty[1]
                inner == [arena EXCEPT !.rows[lt].typ = ltt]
                host == [inner EXCEPT !.rows[lhs].typ = ltt]
            IN scope_of_lhs_impl(host, children, lt)
       [] OTHER -> [ok |-> FALSE, tlc |-> arena, children |-> children]

\* scope_of_lhs with the children pushed on the given scope, no scope made.
ScopeOfLhsIntoParent(arena, scope, lhs) ==
  LET r == scope_of_lhs_impl(arena, <<>>, lhs)
  IN IF ~r.ok \/ scope = 0 THEN [ok |-> FALSE, tlc |-> r.tlc, sid |-> 0]
     ELSE [ok |-> TRUE,
           tlc |-> [r.tlc EXCEPT !.scopes[scope].children = @ \o r.children],
           sid |-> scope]

\* Term::scope_of_lhs; scope is 0 for None, sid the ScopeId returned
scope_of_lhs(arena, scope, lhs) ==
  LET r == scope_of_lhs_impl(arena, <<>>, lhs)
  IN IF ~r.ok THEN [ok |-> FALSE, tlc |-> r.tlc, sid |-> 0]
     ELSE LET pushed == push_scope(r.tlc, Scope(scope, r.children))
          IN [ok |-> TRUE, tlc |-> pushed.tlc, sid |-> pushed.sid]

\* The rows patterns are taken from: identifiers, the wildcard, single and
\* nested ascriptions, two ascriptions of one identifier, and shapes that
\* are no pattern.
LhsRows ==
  << Row(Term_Ident(TextWild), Any, KNil, 1),
     Row(Term_Ident(TextX), Aa, KT, 2),
     Row(Term_Ascript(2, Bb), Any, KNil, 3),
     Row(Term_Ascript(3, Cc), Any, KNil, 4),
     Row(Term_Value(Text1), Any, KV, 5),
     Row(Term_Ascript(5, Aa), Any, KNil, 6),
     Row(Term_Ident(TextY), Bb, KT, 7),
     Row(Term_Ascript(1, Aa), Any, KNil, 8),
     Row(Term_Tuple(<<2, 7>>), Any, KNil, 9),
     Row(Term_Ascript(2, Cc), Any, KNil, 10),
     Row(Term_Ascript(9, Aa), Bb, KNil, 11) >>

\* The most scopes the arena holds when a call is made.
MaxScopes == 3

\* One root scope; a is no TermId and b no ScopeId yet.
InitScope ==
  /\ a = 0
  /\ b = 0
  /\ op = "init"
  /\ out = [ok |-> TRUE, sid |-> 0]
  /\ subs = <<>>
  /\ ks = <<>>
  /\ funcs = <<>>
  /\ compiled = <<>>
  /\ tlc = [rows |-> LhsRows, scopes |-> <<Scope(0, <<>>)>>]

\* out = Term::scope_of_lhs(tlc, scope, lhs); a panic ends the run.
ScopeOfLhs ==
  /\ out.ok
  /\ Len(tlc.scopes) <= MaxScopes
  /\ \E scope \in 0..Len(tlc.scopes), lhs \in 1..Len(tlc.rows) :
       LET r == scope_of_lhs(tlc, scope, lhs)
       IN /\ a' = lhs
          /\ b' = scope
          /\ out' = [ok |-> r.ok, sid |-> r.sid]
          /\ tlc' = r.tlc
  /\ op' = "scope_of_lhs"
  /\ UNCHANGED <<subs, ks, funcs, compiled>>

NextScope == ScopeOfLhs

SpecScope == InitScope /\ [][NextScope]_vars

---------------------------------------------------------------------------
(* Properties of normalize.                                                *)

\* C1: normalize is idempotent: normalizing the result of normalize again
\* gives the same type, normalize(normalize(t)) = normalize(t).
NormalizeIdempotent == op = "normalize2" => out = normalize(a)

---------------------------------------------------------------------------
(* Properties of most_general_unifier.                                     *)

\* C2: for every normalized type t (normalize(t) = t), unifying t with
\* itself gives t.
MguReflexive ==
  (op = "mgu" /\ a = b /\ normalize(a) = a) => out = a

\* C3: for a non-conjunction t that unifies with itself to t, and a u whose
\* unifier with t is bottom, And([t, u]) unified with t is t: the conjunct
\* that does not match is dropped.
MguAbsorbs ==
  (/\ op = "plural"
   /\ a.k # "And"
   /\ most_general_unifier(a, a) = a
   /\ \/ is_bottom(most_general_unifier(b, a))
      \/ is_bottom(most_general_unifier(a, b)))
    => out = a

\* A conjunct that does not match is dropped next to an Arrow.
MguAbsorbsWitness ==
  /\ op = "plural"
  /\ a = Arrow(Aa, Bb)
  /\ b = Cc
  /\ out = Arrow(Aa, Bb)

\* C4: most_general_unifier is symmetric: a unified with b equals b unified
\* with a.
MguSymmetric == op = "mgu" => out = most_general_unifier(b, a)

Kinds == {"Any", "Named", "And", "Arrow", "Tuple", "Product", "Ratio", "Constant"}

RECURSIVE IsType(_)
IsType(t) ==
  /\ DOMAIN t = {"k", "n", "ts", "v", "id"}
  /\ t.k \in Kinds
  /\ t.v \in BOOLEAN
  /\ t.id \in Nat
  /\ t.k \in {"Arrow", "Ratio"} => Len(t.ts) = 2
  /\ t.k \in {"Any", "Constant"} => Len(t.ts) = 0
  /\ \A i \in 1..Len(t.ts) : IsType(t.ts[i])

BothOf(l, r, kind) == l.k = kind /\ r.k = kind

\* The shape mismatches that hold of both unifiers and of every name.
ShapeMismatch(l, r) ==
  \/ is_bottom(l)
  \/ is_bottom(r)
  \/ l.k = "Tuple" /\ r.k = "Product" /\ Len(l.ts) = Len(r.ts)
  \/ l.k = "Product" /\ r.k = "Tuple" /\ Len(l.ts) = Len(r.ts)
  \/ BothOf(l, r, "Tuple") /\ Len(l.ts) # Len(r.ts)
  \/ BothOf(l, r, "Product") /\ Len(l.ts) # Len(r.ts)

NamesDiffer(l, r) == BothOf(l, r, "Named") /\ l.n # r.n

ArityDiffers(l, r) == BothOf(l, r, "Named") /\ l.n = r.n /\ Len(l.ts) # Len(r.ts)

\* C5 as stated: both unifiers always return a type, and return bottom for
\* a Tuple against a Product of the same arity, two Named of different
\* names, two Named of one name and different arity, Tuples or Products of
\* different lengths, and a bottom input.
FailureIsBottom ==
  op \in {"mgu", "iu"} =>
    /\ IsType(out)
    /\ (ShapeMismatch(a, b) \/ NamesDiffer(a, b) \/ ArityDiffers(a, b))
         => is_bottom(out)

\* C5 amended: both unifiers always return a type, and return bottom for a
\* Tuple against a Product of the same arity, Tuples or Products of
\* different lengths and a bottom input; most_general_unifier returns
\* bottom for two Named of different names, and for two Named of one name
\* that is not all uppercase and different arity; implication_unifier
\* returns bottom for two Named whose names are both not all uppercase and
\* that differ in name or in arity.
FailureIsBottomConcrete ==
  op \in {"mgu", "iu"} =>
    /\ IsType(out)
    /\ ShapeMismatch(a, b) => is_bottom(out)
    /\ (op = "mgu" /\ NamesDiffer(a, b)) => is_bottom(out)
    /\ (op = "mgu" /\ ArityDiffers(a, b) /\ ~AllUpper(a.n)) => is_bottom(out)
    /\ (/\ op = "iu"
        /\ NamesDiffer(a, b) \/ ArityDiffers(a, b)
        /\ ~AllUpper(a.n)
        /\ ~AllUpper(b.n)) => is_bottom(out)

\* Two concrete names that differ fail in the implication unifier.
FailureIsBottomWitness ==
  /\ op = "iu"
  /\ a = Aa
  /\ b = Bb
  /\ is_bottom(out)

\* The members of a conjunction; a type that is not one is its own member.
Mem(t) == IF t.k = "And" THEN {t.ts[i] : i \in 1..Len(t.ts)} ELSE {t}

\* The unifications of every member of l with every member of r.
Branches(l, r) == {most_general_unifier(x, y) : x \in Mem(l), y \in Mem(r)}

BranchMembers(l, r) == UNION {Mem(m) : m \in Branches(l, r)}

RECURSIVE SortSet(_)
SortSet(S) ==
  IF S = {} THEN <<>>
  ELSE LET m == CHOOSE x \in S : \A y \in S : Cmp(x, y) <= 0
       IN <<m>> \o SortSet(S \ {m})

CollapseSet(S) ==
  LET s == SortSet(S) IN IF Len(s) = 1 THEN s[1] ELSE And(s)

\* C6 as stated: with a conjunction on a side, the result is bottom as soon
\* as one pairwise unification of the members is bottom.
MguAndShortCircuits ==
  (op = "mgu" /\ (a.k = "And" \/ b.k = "And")) =>
    ((\E m \in Branches(a, b) : is_bottom(m)) => is_bottom(out))

\* C6 amended: with a conjunction on a side, the result is the flattened,
\* sorted and deduplicated collection of the pairwise unifications of the
\* members, the single element when one remains; a bottom branch adds
\* nothing to it, so the result is bottom only when every branch is.
MguAndDistributes ==
  (op = "mgu" /\ (a.k = "And" \/ b.k = "And")) =>
    /\ out = CollapseSet(BranchMembers(a, b))
    /\ is_bottom(out) <=> \A m \in Branches(a, b) : is_bottom(m)

\* A conjunction against a conjunction with a bottom branch and two
\* members left.
MguAndDistributesWitness ==
  /\ op = "mgu"
  /\ a = And(<<Aa, Bb>>)
  /\ b = And(<<Bb, Aa>>)
  /\ out = And(<<Aa, Bb>>)

NotRatioNorAnd(t) == ~is_bottom(t) /\ t.k # "Ratio" /\ t.k # "And"

\* C7: a Ratio(n, d) unified with a type t that is not bottom, not a Ratio
\* and not an And, in either order, is n unified with t (in that order)
\* when d is the unit Tuple, and bottom for every other d.
MguRatioAgainstOther ==
  /\ (op = "mgu" /\ a.k = "Ratio" /\ NotRatioNorAnd(b)) =>
       out = IF a.ts[2] = Unit THEN most_general_unifier(a.ts[1], b) ELSE Bottom
  /\ (op = "mgu" /\ b.k = "Ratio" /\ NotRatioNorAnd(a)) =>
       out = IF b.ts[2] = Unit THEN most_general_unifier(a, b.ts[1]) ELSE Bottom
  /\ (op = "mgu" /\ a = Ratio(Aa, Unit) /\ b = Aa) => out = Aa

\* Ratio(Aa, ()) unified with Aa is Aa.
MguRatioAgainstOtherWitness ==
  /\ op = "mgu"
  /\ a = Ratio(Aa, Unit)
  /\ b = Aa
  /\ out = Aa

---------------------------------------------------------------------------
(* Properties of implication_unifier.                                      *)

ConcreteNamed(t) == t.k = "Named" /\ ~AllUpper(t.n)

\* C8: an uppercase-named atom X implied against a concrete Named type c
\* gives c, and so does c implied against X; both record exactly the
\* binding X -> c.
IuSolvesVariable ==
  /\ (op = "iu" /\ is_var(a) /\ ConcreteNamed(b)) =>
       (out = b /\ subs = <<<<a, b>>>>)
  /\ (op = "iu" /\ ConcreteNamed(a) /\ is_var(b)) =>
       (out = a /\ subs = <<<<b, a>>>>)

\* The concrete type on the left, the variable on the right.
IuSolvesVariableWitness ==
  /\ op = "iu"
  /\ a = Named(NameCc, <<Aa, Bb>>)
  /\ b = X
  /\ out = Named(NameCc, <<Aa, Bb>>)
  /\ subs = <<<<X, Named(NameCc, <<Aa, Bb>>)>>>>

\* The bindings of variable key in the list sb, in discovery order.
RECURSIVE BindingsOf(_, _)
BindingsOf(sb, key) ==
  IF sb = <<>> THEN <<>>
  ELSE IF Head(sb)[1] = key THEN <<Head(sb)[2]>> \o BindingsOf(Tail(sb), key)
  ELSE BindingsOf(Tail(sb), key)

\* most_general_unifier folded over the bindings from the left; bottom as
\* soon as one step is bottom.
RECURSIVE FoldMgu(_, _)
FoldMgu(acc, rest) ==
  IF rest = <<>> THEN acc
  ELSE LET m == most_general_unifier(acc, Head(rest))
       IN IF is_bottom(m) THEN Bottom ELSE FoldMgu(m, Tail(rest))

BoundVars(sb) == {sb[i][1] : i \in 1..Len(sb)}

FinalBinding(sb, key) ==
  LET bs == BindingsOf(sb, key) IN FoldMgu(Head(bs), Tail(bs))

Conflict(sb) == \E key \in BoundVars(sb) : is_bottom(FinalBinding(sb, key))

FinalMap(sb) == [key \in BoundVars(sb) |-> FinalBinding(sb, key)]

\* The domain and range sub-unifications of Arrow a implied against Arrow b.
ArrowDomain == _implication_unifier(b.ts[1], a.ts[1], <<>>)

ArrowRange == _implication_unifier(a.ts[2], b.ts[2], ArrowDomain.s)

ArrowFails == is_bottom(ArrowDomain.t) \/ is_bottom(ArrowRange.t)

ArrowSkeleton == Arrow(ArrowDomain.t, ArrowRange.t)

\* C9 as stated: Arrow implied against Arrow unifies the domains with the
\* operands swapped and the ranges in order; the result is bottom if either
\* is bottom and otherwise the Arrow of the two results with the collected
\* substitution applied.
IuArrowAlwaysArrow ==
  (op = "iu" /\ BothOf(a, b, "Arrow")) =>
    IF ArrowFails THEN is_bottom(out)
    ELSE out.k = "Arrow" /\ out = substitute(ArrowSkeleton, FinalMap(subs))

\* C9 amended: Arrow implied against Arrow unifies the domains with the
\* operands swapped and the ranges in order; the result is bottom if either
\* is bottom or if two bindings of one variable do not unify, and otherwise
\* the Arrow of the two results with the merged substitution applied.  A
\* variable as the source's domain is bound to the target's domain.
IuArrowContravariant ==
  (op = "iu" /\ BothOf(a, b, "Arrow")) =>
    /\ IF ArrowFails \/ Conflict(subs) THEN is_bottom(out)
       ELSE out.k = "Arrow" /\ out = substitute(ArrowSkeleton, FinalMap(subs))
    /\ ~ArrowFails => subs = ArrowRange.s
    /\ (/\ a.ts[1].k = "Named"
        /\ AllUpper(a.ts[1].n)
        /\ ~is_bottom(b.ts[1])
        /\ ~(b.ts[1].k = "Named" /\ AllUpper(b.ts[1].n)))
         => subs # <<>> /\ subs[1] = <<a.ts[1], b.ts[1]>>

\* The variable of the source's domain is bound to the target's domain and
\* the variable of the source's range to the target's range.
IuArrowContravariantWitness ==
  /\ op = "iu"
  /\ a = Arrow(X, Y)
  /\ b = Arrow(Aa, Bb)
  /\ subs = <<<<X, Aa>>, <<Y, Bb>>>>
  /\ out = Arrow(Aa, Bb)

\* C10: a variable bound more than once gets the most_general_unifier of
\* its bindings, folded in discovery order; the result is bottom as soon as
\* a fold step is bottom; otherwise every occurrence of the variable in the
\* unified type is replaced by its final binding.
IuMergesBindings ==
  op = "iu" =>
    /\ out = IF Conflict(subs) THEN Bottom
             ELSE substitute(_implication_unifier(a, b, <<>>).t, FinalMap(subs))
    /\ (a = Tuple(<<X, X>>) /\ b = Tuple(<<Aa, Bb>>)) => is_bottom(out)
    /\ (a = Tuple(<<X, X>>) /\ b = Tuple(<<Aa, Aa>>)) => out = Tuple(<<Aa, Aa>>)

\* Two bindings of X that do not unify.
IuMergesBindingsWitness ==
  /\ op = "iu"
  /\ a = Tuple(<<X, X>>)
  /\ b = Tuple(<<Aa, Bb>>)
  /\ subs = <<<<X, Aa>>, <<X, Bb>>>>
  /\ is_bottom(out)

---------------------------------------------------------------------------
(* Properties of simplify_ratio.                                           *)

RECURSIVE Count(_, _)
Count(s, x) ==
  IF s = <<>> THEN 0
  ELSE (IF Head(s) = x THEN 1 ELSE 0) + Count(Tail(s), x)

Min(x, y) == IF x < y THEN x ELSE y

Members(t) == {t.ts[i] : i \in 1..Len(t.ts)}

\* A factor that project_ratio takes as one atom and that is not the unit
\* an empty numerator is rebuilt as.
IsFactor(x) == x.k # "Product" /\ x.k # "Ratio" /\ x # Unit

\* The factors of the numerator and of the denominator of a simplified type.
FactorsOf(t) ==
  IF t = Unit THEN <<>> ELSE IF t.k = "Product" THEN t.ts ELSE <<t>>

NumSide(t) == IF t.k = "Ratio" THEN FactorsOf(t.ts[1]) ELSE FactorsOf(t)

DenSide(t) == IF t.k = "Ratio" THEN FactorsOf(t.ts[2]) ELSE <<>>

\* Ratio(N, D) with D a Product, the members of both being single factors
\* and one of them common to both.
RatioOver(kind) ==
  /\ op = "simplify_ratio"
  /\ a.k = "Ratio"
  /\ a.ts[1].k = kind
  /\ a.ts[2].k = "Product"
  /\ \A x \in Members(a.ts[1]) \cup Members(a.ts[2]) : IsFactor(x)
  /\ Members(a.ts[1]) \cap Members(a.ts[2]) # {}

Max(x, y) == IF x > y THEN x ELSE y

Elems(seq) == {seq[i] : i \in 1..Len(seq)}

\* The atoms of a side of a simplified type that is not empty.
AtomsOf(t) == IF t.k = "Product" THEN t.ts ELSE <<t>>

\* C25: simplify_ratio cancels as multisets: an atom that is n times in the
\* projected numerator and d times in the projected denominator is
\* max(0, n - d) times in the numerator of the result and max(0, d - n)
\* times in its denominator, so on one side at most, however often it is
\* repeated; a numerator left empty is the unit Tuple, and with the
\* denominator left empty the result is the numerator alone.
RatioCancelsMultiset ==
  op = "simplify_ratio" =>
    LET pr == project_ratio(a)
        atoms == Elems(pr.num) \cup Elems(pr.den)
        left(x) == Max(0, Count(pr.num, x) - Count(pr.den, x))
        over(x) == Max(0, Count(pr.den, x) - Count(pr.num, x))
        numEmpty == \A x \in atoms : left(x) = 0
        denEmpty == \A x \in atoms : over(x) = 0
        top == IF denEmpty THEN out ELSE out.ts[1]
        nums == IF numEmpty THEN <<>> ELSE AtomsOf(top)
        dens == IF denEmpty THEN <<>> ELSE AtomsOf(out.ts[2])
    IN /\ ~denEmpty => out.k = "Ratio"
       /\ numEmpty => top = Unit
       /\ Elems(nums) \cup Elems(dens) \subseteq atoms
       /\ \A x \in atoms :
            /\ Count(nums, x) = left(x)
            /\ Count(dens, x) = over(x)
            /\ Count(nums, x) = 0 \/ Count(dens, x) = 0

\* (X * X * X * Aa) / (X * X * X * X) is Aa / X.
RatioCancelsMultisetWitness ==
  /\ op = "simplify_ratio"
  /\ a = Ratio(Product(<<X, X, X, Aa>>), Product(<<X, X, X, X>>))
  /\ out = Ratio(Aa, X)

---------------------------------------------------------------------------
(* Properties of Kind.                                                     *)

\* C12: for every kind k, Nil, named or a conjunction, k.has(k) is true and
\* k.has(Nil) is true.
KindHasReflexive ==
  op = "has" =>
    /\ a = b => out = TRUE
    /\ b = KNil => out = TRUE

\* A conjunction has itself.
KindHasReflexiveWitness ==
  /\ op = "has"
  /\ a = KAnd(<<KK, KT>>)
  /\ b = a
  /\ out = TRUE

KindMembers(x) == {x.ps[i] : i \in 1..Len(x.ps)}

\* The members of ks that are not Nil.
Remaining == {ks[i] : i \in 1..Len(ks)} \ {KNil}

\* A kind in the form the invariant describes: a conjunction has at least
\* two members, strictly ascending, none of them Nil or a conjunction.
NormalKind(x) ==
  x.k = "And" =>
    /\ \A m \in KindMembers(x) : m # KNil /\ m.k # "And"
    /\ \A i \in 1..(Len(x.ps) - 1) : KCmp(x.ps[i], x.ps[i + 1]) < 0
    /\ Len(x.ps) >= 2

\* C13: a conjunction built by Kind::and from a list of kinds that are
\* themselves in normal form, conjunctions among them as Type::kind collects
\* them from the members of a conjunction, contains no Nil and no
\* conjunction, is strictly ascending and has at least two members;
\* nothing remaining gives Nil and one remaining member gives that member.
KindAndNormalized ==
  (op \in {"and", "kind"} /\ \A i \in 1..Len(ks) : NormalKind(ks[i])) =>
    /\ NormalKind(out)
    /\ Remaining = {} => out = KNil
    /\ \A m \in Remaining : Remaining = {m} => out = m

---------------------------------------------------------------------------
(* Properties of mask.                                                     *)

BeginsUpper(nm) == Len(nm) > 0 /\ IsUpperChar(nm[1])

\* The names that count as variables: by the first letter, or by all.
IsVarName(nm, byFirst) == IF byFirst THEN BeginsUpper(nm) ELSE AllUpper(nm)

\* The mask of a type when the variable names are the ones that become Any.
RECURSIVE Masked(_, _)
Masked(t, byFirst) ==
  IF t.k = "Named" THEN
    (IF IsVarName(t.n, byFirst) THEN Any
     ELSE Named(t.n, [i \in 1..Len(t.ts) |-> Any]))
  ELSE IF t.k \in {"Any", "Constant"} THEN t
  ELSE [t EXCEPT !.ts = [i \in 1..Len(t.ts) |-> Masked(t.ts[i], byFirst)]]

---------------------------------------------------------------------------
(* Properties of Constant::parse.                                          *)

Signed(v) == Len(v) > 0 /\ (v[1] = 43 \/ v[1] = 45)

Body(v) == IF Signed(v) THEN Tail(v) ELSE v

AllDigits(v) == Len(v) > 0 /\ \A i \in 1..Len(v) : IsDigit(v[i])

\* The number a text of digits denotes; for texts of nine digits at most.
RECURSIVE NumVal(_)
NumVal(ds) ==
  IF ds = <<>> THEN 0
  ELSE 10 * NumVal(SubSeq(ds, 1, Len(ds) - 1)) + (ds[Len(ds)] - 48)

\* A signed or unsigned decimal number short enough to be far from overflow.
ShortNumber(v) == AllDigits(Body(v)) /\ Len(Body(v)) <= 9

TextValue(v) ==
  IF Signed(v) /\ v[1] = 45 THEN 0 - NumVal(Body(v)) ELSE NumVal(Body(v))

ValueOf(x) == IF x.neg THEN 0 - NumVal(x.mag) ELSE NumVal(x.mag)

Keyword(v) == v \in {TextNaN, TextTrue, TextFalse}

\* The canonical spelling of an integer: no plus sign, no leading zero, no
\* minus zero.
CanonicalInt(v) ==
  /\ AllDigits(IF Len(v) > 0 /\ v[1] = 45 THEN Tail(v) ELSE v)
  /\ Body(v)[1] = 48 => v = <<48>>
  /\ ~(Len(v) > 0 /\ v[1] = 43)

IsConstant(x) ==
  \/ x = NaN
  \/ x \in {Boolean(TRUE), Boolean(FALSE)}
  \/ x.c = "Op" /\ x = Op(x.text)
  \/ x.c = "Integer" /\ x = Integer(x.neg, x.mag) /\ AllDigits(x.mag)

\* C15: parse always gives a constant: NaN for "NaN", a Boolean for "True"
\* and "False", Integer(n) for a text that denotes an n within the i64
\* range, Op(text) for everything else, digits out of that range included;
\* the Debug form of the result is the input itself when the input is
\* True, False, NaN, a canonical decimal integer or a symbol, and it parses
\* to the same constant again.
ConstantParseClassifies ==
  /\ op = "parse" =>
       /\ IsConstant(out)
       /\ a = TextNaN => out = NaN
       /\ a = TextTrue => out = Boolean(TRUE)
       /\ a = TextFalse => out = Boolean(FALSE)
       /\ ShortNumber(a) => out.c = "Integer" /\ ValueOf(out) = TextValue(a)
       /\ a = I64MaxDigits => out = Integer(FALSE, I64MaxDigits)
       /\ a = <<45>> \o I64MinDigits => out = Integer(TRUE, I64MinDigits)
       /\ a \in {I64MinDigits, <<45>> \o BelowI64Min, I64MaxDigits \o <<48>>}
            => out = Op(a)
       /\ (~Keyword(a) /\ ~AllDigits(Body(a))) => out = Op(a)
  /\ op = "fmt" =>
       /\ (Keyword(a) \/ CanonicalInt(a) \/ out.c = "Op") => b = a
       /\ out.c = "Integer" => CanonicalInt(b)
  /\ op = "parse2" => out = Constant_parse(a)

\* The smallest i64 is parsed, rendered as it was written and parsed again.
ConstantParseClassifiesWitness ==
  /\ op = "parse2"
  /\ a = <<45>> \o I64MinDigits
  /\ b = a
  /\ out = Integer(TRUE, I64MinDigits)

---------------------------------------------------------------------------
(* Properties of Term::equals.                                             *)

Compared == {"Ident", "Value", "Arrow", "App", "Tuple"}

\* The term at id written out as a tree, the TermIds and the scopes left
\* out: the variant, the name or text, the declared type and the subtrees.
RECURSIVE TreeOf(_)
TreeOf(id) ==
  LET r == EqRows[id]
  IN <<r.t, r.s, r.ty, [i \in 1..Len(r.c) |-> TreeOf(r.c[i])]>>

\* Every node under id is an Ident, a Value, an Arrow, an App or a Tuple.
RECURSIVE OnlyCompared(_)
OnlyCompared(id) ==
  LET r == EqRows[id]
  IN r.t \in Compared /\ \A i \in 1..Len(r.c) : OnlyCompared(r.c[i])

\* C16: Term::equals is true of two TermIds exactly when the terms under
\* them hold Ident, Value, Arrow, App and Tuple nodes only and are the same
\* node for node: names, literal texts, declared arrow types and tuple
\* lengths; every other pair of shapes is false, a Let, Block, Ascript,
\* Match or Literal against itself too; so the two 1 + 2 * 3 are equal.
TermEqualsStructural ==
  op = "equals" =>
    /\ out = (OnlyCompared(a) /\ OnlyCompared(b) /\ TreeOf(a) = TreeOf(b))
    /\ (a = b /\ EqRows[a].t \notin Compared) => out = FALSE
    /\ EqRows[a].t # EqRows[b].t => out = FALSE
    /\ (a = 9 /\ b = 18) => out = TRUE

\* The two rows of 1 + 2 * 3 are different TermIds and are equal.
TermEqualsStructuralWitness ==
  /\ op = "equals"
  /\ a = 9
  /\ b = 18
  /\ a # b
  /\ out = TRUE

---------------------------------------------------------------------------
(* Properties of compile_function.                                         *)

Names(fs) == {fs[i].name : i \in 1..Len(fs)}

NoDuplicates(s) == \A i, j \in 1..Len(s) : s[i] = s[j] => i = j

\* C17: funcs never holds two definitions of one mangled name, no body is
\* lowered twice, and compile_function on a Let whose mangled name is
\* already in funcs returns that name and leaves funcs as it was.
CompileMemoized ==
  /\ NoDuplicates([i \in 1..Len(funcs) |-> funcs[i].name])
  /\ NoDuplicates(compiled)
  /\ (/\ op = "compile_function"
      /\ CompRows[a].t = "Let"
      /\ mangled(CompRows[a]) \in Names(b))
       => (out.ok /\ out.val = mangled(CompRows[a]) /\ funcs = b)

\* g, which calls f, is lowered after f: f is not lowered again.
CompileMemoizedWitness ==
  /\ op = "compile_function"
  /\ a = 16
  /\ Len(b) = 1
  /\ b[1].name = mangled(CompRows[3])
  /\ out.ok
  /\ Len(funcs) = 2
  /\ compiled = <<mangled(CompRows[3]), mangled(CompRows[16])>>

\* The declared parameter types, group by group, and the return type.
Signature(lt) ==
  <<[g \in 1..Len(lt.params) |->
       [i \in 1..Len(lt.params[g]) |-> lt.params[g][i].typ]], lt.rtype>>

LetRows == {t \in 1..Len(CompRows) : CompRows[t].t = "Let"}

\* C18: the mangled name compile_function computes is the same for Lets of
\* the same name, parameter types and return type, and different for two
\* Lets of one name whose parameter types or return type differ in
\* structure: a Tuple of one member against a Product of one member, an
\* untyped parameter against no parameter.
MangledSeparates ==
  (op = "compile_function" /\ a \in LetRows) =>
    /\ out.ok => out.val = mangled(CompRows[a])
    /\ \A t \in LetRows :
         CompRows[t].s = CompRows[a].s =>
           (Signature(CompRows[t]) = Signature(CompRows[a])
              <=> mangled(CompRows[t]) = mangled(CompRows[a]))

Unsupported(lt) ==
  \/ Len(lt.params) = 0
  \/ Len(lt.params) > 1
  \/ \E g \in 1..Len(lt.params) : \E i \in 1..Len(lt.params[g]) :
       lt.params[g][i].name = <<>> \/ lt.params[g][i].typ = <<>>

\* C19: compile_function on a Let with no parameter group, with more than
\* one, or with an unnamed or untyped parameter never returns a mangled
\* name: it panics and funcs is as it was before the call.
UnsupportedFails ==
  (op = "compile_function" /\ a \in LetRows /\ Unsupported(CompRows[a])) =>
    (~out.ok /\ funcs = b)

---------------------------------------------------------------------------
(* most_general_unifier on two Arrows.                                     *)

BothArrows == op = "mgu" /\ a.k = "Arrow" /\ b.k = "Arrow"

\* What the Arrow arm gives for two Arrows of one domain: the Arrow of the
\* domain and the unified ranges, bottom when the ranges do not unify.
OverRanges(l, r) ==
  LET bt == most_general_unifier(l.ts[2], r.ts[2])
  IN IF is_bottom(bt) THEN Bottom ELSE Arrow(l.ts[1], bt)

---------------------------------------------------------------------------
(* Properties of scope_of_lhs.                                             *)

\* The rows of a pattern from lhs inwards: lhs, then the inner row of each
\* ascription.
RECURSIVE Chain(_, _)
Chain(rows, lhs) ==
  IF rows[lhs].term.t = "Ascript" THEN <<lhs>> \o Chain(rows, rows[lhs].term.c[1])
  ELSE <<lhs>>

\* C21: scope_of_lhs(scope, lhs) makes one new scope, the last of the
\* arena, with the given scope as parent.  Its children are none for the
\* wildcard and one child (name, empty kind map, type of the row, its
\* TermId) for another identifier; under ascriptions every ascription row
\* has its own declared type and the identifier the type of the innermost
\* ascription, which is the type bound.  A pattern ending in another shape
\* is a fatal failure.
ScopeOfLhsBinds ==
  op = "scope_of_lhs" =>
    LET chain == Chain(tlc.rows, a)
        n == Len(chain)
        tip == chain[n]
        ident == tlc.rows[tip].term
    IN IF ident.t # "Ident" THEN ~out.ok
       ELSE /\ out.ok
            /\ out.sid = Len(tlc.scopes)
            /\ tlc.scopes[out.sid].parent = b
            /\ \A i \in 1..(n - 1) :
                 tlc.rows[chain[i]].typ = tlc.rows[chain[i]].term.ty[1]
            /\ n > 1 => tlc.rows[tip].typ = tlc.rows[chain[n - 1]].term.ty[1]
            /\ tlc.scopes[out.sid].children =
                 (IF ident.s = TextWild THEN <<>>
                  ELSE <<ScopeChild(ident.s, EmptyMap, tlc.rows[tip].typ, <<tip>>)>>)

\* The nested ascription (x : Bb) : Cc binds x at Bb in a scope under the
\* scope made before it.
ScopeOfLhsBindsWitness ==
  /\ op = "scope_of_lhs"
  /\ a = 4
  /\ b = 2
  /\ out = [ok |-> TRUE, sid |-> 3]
  /\ tlc.scopes[3] = Scope(2, <<ScopeChild(TextX, EmptyMap, Bb, <<2>>)>>)
  /\ tlc.rows[3].typ = Bb
  /\ tlc.rows[4].typ = Cc



\* C22: a call of scope_of_lhs leaves the number of rows and every row's
\* term, kind and span as they were, changes the type of rows on the
\* ascription chain of its pattern only, leaves every scope there was with
\* its parent and children, and appends exactly one scope when it succeeds.
ArenaStable ==
  [][op' = "scope_of_lhs" =>
       /\ Len(tlc'.rows) = Len(tlc.rows)
       /\ \A i \in 1..Len(tlc.rows) :
            /\ tlc'.rows[i].term = tlc.rows[i].term
            /\ tlc'.rows[i].kind = tlc.rows[i].kind
            /\ tlc'.rows[i].span = tlc.rows[i].span
            /\ tlc'.rows[i].typ # tlc.rows[i].typ => i \in Elems(Chain(tlc.rows, a'))
       /\ Len(tlc'.scopes) >= Len(tlc.scopes)
       /\ \A sid \in 1..Len(tlc.scopes) : tlc'.scopes[sid] = tlc.scopes[sid]
       /\ out'.ok => Len(tlc'.scopes) = Len(tlc.scopes) + 1]_vars

\* After three calls the first two scopes are as they were made and x has
\* been retyped by the ascription of the third.
ArenaStableWitness ==
  /\ op = "scope_of_lhs"
  /\ a = 10
  /\ out = [ok |-> TRUE, sid |-> 4]
  /\ Len(tlc.rows) = Len(LhsRows)
  /\ tlc.scopes[2] = Scope(1, <<ScopeChild(TextX, EmptyMap, Aa, <<2>>)>>)
  /\ tlc.scopes[3] = Scope(2, <<ScopeChild(TextX, EmptyMap, Bb, <<2>>)>>)
  /\ tlc.scopes[4] = Scope(3, <<ScopeChild(TextX, EmptyMap, Cc, <<2>>)>>)
  /\ tlc.rows[2] = Row(Term_Ident(TextX), Cc, KT, 2)

---------------------------------------------------------------------------
(* Properties of domain and range.                                         *)

\* The domain (side 1) or range (side 2) of a type, as the code gives it.
SideOf(t, side) == IF side = 1 THEN domain(t) ELSE range(t)

\* A conjunction taken member by member, anything else as one element.
Pieces(t) == IF t.k = "And" THEN t.ts ELSE <<t>>

RECURSIVE ConcatAll(_)
ConcatAll(seqs) ==
  IF seqs = <<>> THEN <<>> ELSE Head(seqs) \o ConcatAll(Tail(seqs))

IsArrow(t) == t.k = "Arrow"

NotAnd(t) == t.k # "And"

\* What the claim gives for side 1 or 2 of t.
Distributed(t, side) ==
  IF t.k = "Arrow" THEN t.ts[side]
  ELSE IF t.k # "And" THEN Bottom
  ELSE LET parts == IF SelectSeq(t.ts, NotAnd) = t.ts
                    THEN LET arrows == SelectSeq(t.ts, IsArrow)
                         IN [i \in 1..Len(arrows) |-> Pieces(arrows[i].ts[side])]
                    ELSE [i \in 1..Len(t.ts) |-> Pieces(SideOf(t.ts[i], side))]
           all == ConcatAll(parts)
       IN IF Len(all) = 1 THEN all[1] ELSE And(all)

\* C23: domain and range give bottom for a type that is neither an Arrow
\* nor an And, the domain or range of an Arrow, and for an And the domains
\* or ranges of its members one after the other in member order, each
\* conjunction among them taken member by member (one level), so that a
\* conjunct that is no Arrow adds nothing; one element is given bare, and
\* the elements are neither sorted nor deduplicated.
DomainRangeDistribute ==
  /\ op = "domain" => out = Distributed(a, 1)
  /\ op = "range" => out = Distributed(a, 2)

\* Three Arrows out of order with one domain twice: the domains stay in
\* member order, the repeated one twice.
DomainRangeDistributeWitness ==
  /\ op = "domain"
  /\ a = And(<<Arrow(Bb, Aa), Arrow(Aa, Bb), Arrow(Bb, Aa)>>)
  /\ out = And(<<Bb, Aa, Bb>>)

---------------------------------------------------------------------------
(* Properties of the lowering of a Block.                                  *)

NoFuncs == St(<<>>, <<>>, <<>>)

\* The statements of a Block that are Blocks themselves are followed into;
\* any other statement is lowered by itself, in the scope of its Block.
RECURSIVE ValueOfStmt(_, _)
ValueOfStmt(scope, term) ==
  LET r == CompRows[term]
  IN IF r.t # "Block" THEN compile_expr(CompRows, CompScopes, scope, NoFuncs, term).val
     ELSE IF r.c = <<>> THEN Expression_unit
     ELSE ValueOfStmt(r.sc, r.c[Len(r.c)])

\* What the statements of term add to the preamble, in source order: for
\* each statement of a Block but the last what it adds itself and then its
\* value, for the last what it adds itself.
RECURSIVE AddedBy(_)
AddedBy(term) ==
  LET r == CompRows[term]
      n == Len(r.c)
  IN IF r.t # "Block" \/ n = 0 THEN <<>>
     ELSE ConcatAll([i \in 1..n |->
                       IF i < n THEN Append(AddedBy(r.c[i]), ValueOfStmt(r.sc, r.c[i]))
                       ELSE AddedBy(r.c[i])])

\* C24: compile_expr on a Block appends the lowered statements but the
\* last to the preamble in source order, each after what its own nested
\* Blocks appended, and returns the lowered last statement without
\* appending it; on an empty Block it returns the unit expression and
\* appends nothing; what is in the preamble stays in its place.
BlockKeepsOrder ==
  (op = "compile_expr" /\ CompRows[a].t = "Block" /\ out.ok) =>
    /\ out.pre = AddedBy(a)
    /\ out.val = ValueOfStmt(out.scope, a)

\* A Block with Blocks among its statements: six entries, in source order.
BlockKeepsOrderWitness ==
  /\ op = "compile_expr"
  /\ a = 38
  /\ out.ok
  /\ Len(out.pre) = 6
  /\ out.pre[1] = Expression_literal(Text1)
  /\ out.pre[2] = Expression_variable(2)
  /\ out.pre[3] = Expression_literal(Text1)
  /\ out.pre[4].e = "apply"
  /\ out.pre[6] = Expression_literal(Text1)
  /\ out.val = Expression_variable(2)

---------------------------------------------------------------------------
(* Properties of implication_unifier on conjunctions.                      *)

\* No name all in uppercase anywhere in t.
RECURSIVE VarFree(_)
VarFree(t) ==
  /\ ~(t.k = "Named" /\ AllUpper(t.n))
  /\ \A i \in 1..Len(t.ts) : VarFree(t.ts[i])

\* l implies r: the implication unifier of the two is not bottom.
Implies(l, r) == ~is_bottom(implication_unifier(l, r))

\* Two conjunctions, not bottom and without variables, implied one against
\* the other.
ConjunctionsImplied ==
  /\ op = "iu"
  /\ a.k = "And" /\ b.k = "And"
  /\ ~is_bottom(a) /\ ~is_bottom(b)
  /\ VarFree(a) /\ VarFree(b)

\* C26 as stated: And(L) implied against And(R), both without variables
\* and not bottom, is not bottom exactly when every member of R is implied
\* by at least one member of L.
IuAndCoversRight ==
  ConjunctionsImplied =>
    (~is_bottom(out) <=> \A r \in Elems(b.ts) : \E l \in Elems(a.ts) : Implies(l, r))

\* C26: And(L) implied against And(R), both without variables and not
\* bottom and no member of R a conjunction itself, is not bottom exactly
\* when every member of R is implied by at least one member of L: a member
\* of L that implies no member of R is dropped, a member of R that no
\* member of L implies makes the result bottom.  A member of R that is a
\* conjunction is implied by And(L) as soon as each of its own members is
\* implied by some member of L, not by one member of L for all of them.
IuAndCoversFlatRight ==
  /\ (ConjunctionsImplied /\ \A r \in Elems(b.ts) : r.k # "And") =>
       (~is_bottom(out)
          <=> \A r \in Elems(b.ts) : \E l \in Elems(a.ts) : Implies(l, r))
  /\ (ConjunctionsImplied /\ \A r \in Elems(b.ts) : r.k = "And" /\ ~is_bottom(r)) =>
       (~is_bottom(out)
          <=> \A r \in Elems(b.ts) : \A m \in Elems(r.ts) :
                Implies(a, And(<<m>>)))

\* Aa and Bb are implied by the first two conjuncts; the third one, which
\* implies neither, is dropped.
IuAndCoversFlatRightWitness ==
  /\ op = "iu"
  /\ a = And(<<Aa, Bb, Named(NameCc, <<Aa, Bb>>)>>)
  /\ b = And(<<Aa, Bb>>)
  /\ out = And(<<Aa, Bb>>)

\* The conjuncts of l whose own branch against r does not end in bottom.
Succeeding(l, r) ==
  LET Holds(m) == ~is_bottom(_implication_unifier(m, r, <<>>).t)
  IN SelectSeq(l.ts, Holds)

\* C27: a conjunction implied against a type that is neither a conjunction,
\* nor Any, nor a variable gives what the conjunction of its succeeding
\* conjuncts alone gives: a conjunct whose branch fails adds nothing, no
\* binding either, and never makes the result bottom.
IuFailedConjunctsAddNothing ==
  (/\ op = "iu"
   /\ a.k = "And" /\ ~is_bottom(a)
   /\ b.k \notin {"And", "Any"} /\ ~(b.k = "Named" /\ AllUpper(b.n))) =>
     out = implication_unifier(And(Succeeding(a, b)), b)

---------------------------------------------------------------------------
(* Properties of the lowering of recursive functions.                      *)

\* The body of the definition of the Let at row t: what its body term adds
\* to the preamble, then its value; nothing for a Let without a body.
LoweredBody(t) ==
  IF CompRows[t].c = <<>> THEN <<>>
  ELSE Append(AddedBy(CompRows[t].c[1]), ValueOfStmt(CompRows[t].sc, CompRows[t].c[1]))

\* The call of the function of row t on the parameter x.
CallOf(t) == Expression_apply(mangled(CompRows[t]), <<Expression_variable(2)>>)

\* The Lets whose body applies the binding itself (h) or each other (m, n).
Recursive == {19, 45, 46}

\* C28: compile_function on a Let whose body applies the same binding,
\* directly or through another function, returns its mangled name; the
\* body of its definition is the call of the mangled name of the function
\* applied; and after every successful call each definition added by it
\* has as body the lowered statements of its Let followed by the lowered
\* result.
RecursionLowered ==
  /\ (op \in {"compile_function", "compile_expr"} /\ out.ok) =>
       \A i \in (Len(b) + 1)..Len(funcs) :
         \E t \in LetRows :
           /\ mangled(CompRows[t]) = funcs[i].name
           /\ funcs[i].body = LoweredBody(t)
  /\ (op = "compile_function" /\ a \in Recursive) =>
       /\ out.ok
       /\ out.val = mangled(CompRows[a])
       /\ \E i \in 1..Len(funcs) :
            /\ funcs[i].name = out.val
            /\ funcs[i].body = <<CallOf(IF a = 19 THEN 19 ELSE IF a = 45 THEN 46 ELSE 45)>>

\* m applies n and n applies m: both are defined by the one call on m, each
\* with the call of the other as its body.
RecursionLoweredWitness ==
  /\ op = "compile_function"
  /\ a = 45
  /\ b = <<>>
  /\ out.ok
  /\ Len(funcs) = 2
  /\ funcs[1].name = mangled(CompRows[45]) /\ funcs[1].body = <<CallOf(46)>>
  /\ funcs[2].name = mangled(CompRows[46]) /\ funcs[2].body = <<CallOf(45)>>
  /\ compiled = <<mangled(CompRows[45]), mangled(CompRows[46])>>

---------------------------------------------------------------------------
(* Properties of the calls the lowering emits.                             *)

RECURSIVE CalleesOf(_)

\* The names applied anywhere in an expression.
CalleesOf(e) ==
  (IF e.e = "apply" THEN {e.v} ELSE {})
    \cup UNION {CalleesOf(e.args[i]) : i \in 1..Len(e.args)}
    \cup UNION {CalleesOf(e.arms[i][2]) : i \in 1..Len(e.arms)}

\* The names applied in a list of expressions.
CalleesIn(es) == UNION {CalleesOf(es[i]) : i \in 1..Len(es)}

\* The names applied by the result, the preamble and the bodies in funcs.
Emitted ==
  CalleesOf(out.val) \cup CalleesIn(out.pre)
    \cup UNION {CalleesIn(funcs[i].body) : i \in 1..Len(funcs)}

\* The Lets marked extern that store an identifier as body, and the
\* identifiers they store.
ExternRows ==
  {t \in LetRows : /\ CompRows[t].ext
                   /\ CompRows[t].c # <<>>
                   /\ CompRows[CompRows[t].c[1]].t = "Ident"}

ExternSymbols == {CompRows[CompRows[t].c[1]].s : t \in ExternRows}

\* The binding the callee of the App at row t resolves to in the scope of
\* the call.
CalleeOf(t) ==
  lookup_term(CompScopes, out.scope, CompRows[CompRows[t].c[1]].s,
              CompRows[CompRows[t].c[1]].typ)

\* The arguments of the App at row t hold no App.
PlainArgs(t) ==
  \A i \in 1..Len(CompRows[CompRows[t].c[2]].c) :
    CompRows[CompRows[CompRows[t].c[2]].c[i]].t \in {"Ident", "Value"}

\* C29: after a successful compile_expr every name applied in the result,
\* the preamble and the bodies of funcs is either defined in funcs or the
\* identifier stored by an extern binding, which is no name of funcs; an App
\* of an extern binding is the call of the stored identifier and, its
\* arguments holding no call, leaves funcs as it was; an App of any other
\* binding is the call of the mangled name of that binding, defined in
\* funcs.
NoDanglingCalls ==
  (op = "compile_expr" /\ out.ok) =>
    /\ \A nm \in Emitted : HasDef(funcs, nm) \/ nm \in ExternSymbols
    /\ \A nm \in ExternSymbols : ~HasDef(funcs, nm)
    /\ CompRows[a].t = "App" =>
         /\ out.val.e = "apply"
         /\ IF CalleeOf(a) \in ExternRows
            THEN /\ out.val.v = CompRows[CompRows[CalleeOf(a)].c[1]].s
                 /\ PlainArgs(a) => funcs = b
            ELSE /\ out.val.v = mangled(CompRows[CalleeOf(a)])
                 /\ HasDef(funcs, out.val.v)

\* The Block calling the extern e and then f: the call of e_sym is on the
\* preamble, the call of the mangled f is the result, and funcs gained the
\* definition of f only.
NoDanglingCallsWitness ==
  /\ op = "compile_expr"
  /\ a = 48
  /\ out.ok
  /\ b = <<>>
  /\ out.pre = <<Expression_apply(TextSym, <<Expression_variable(2)>>)>>
  /\ out.val = CallOf(3)
  /\ Names(funcs) = {mangled(CompRows[3])}

=============================================================================
